---- MODULE Spec2Model ----
(***************************************************************************)
(* Board-game recommendation tool server (hw2/python-app).                 *)
(*                                                                         *)
(*   mcp_server.py : main()  - start-up, tool registry, JSON-RPC loop      *)
(*   db.py         : DBManager.score_candidates, fetch_game_cards, ...     *)
(*   agent_client_ollama.py : main() - the client that chains tool calls   *)
(*                                                                         *)
(* Six specifications:                                                     *)
(*   Spec       - the server process: start-up, then the line loop         *)
(*   ScorerSpec - DBManager.score_candidates applied to bounded inputs     *)
(*   RepeatSpec - score_candidates called twice with the same arguments    *)
(*   DbSpec     - the other DBManager methods applied to bounded inputs    *)
(*   ClauseSpec - DBManager._constraint_clauses applied to bounded inputs  *)
(*   AgentSpec  - agent_client_ollama.py: main(), the chat loop            *)
(*                                                                         *)
(* Numbers are scaled so that the scoring formula stays in the integers:   *)
(* scores and average ratings are kept in hundredths, and vote counts are  *)
(* drawn from values v with v + 1 a power of ten.                          *)
(***************************************************************************)
EXTENDS Integers, Sequences, FiniteSets, TLC

VARIABLES
    env,        \* os.environ as main() reads it
    pc,         \* position of the server process
    exitCode,   \* process exit status, -1 while running
    dbOpen,     \* TRUE once DBManager(...) has returned a connected handle
    tools,      \* the registry dict of main(), in insertion order
    store,      \* contents of the games table the Store answers from
    nRead,      \* number of lines taken from stdin so far
    line,       \* the line the loop is working on
    id_,        \* local of main(): req.get("id")
    method,     \* local of main(): req.get("method")
    params,     \* local of main(): req.get("params") or {}
    pending,    \* sequence numbers of lines read and not yet disposed of
    answered,   \* response lines written for the current line
    nOut,       \* response lines written to stdout in total
    resp,       \* the last response line written
    exc,        \* the exception raised while handling the current line
    prevCode,   \* how the previous line ended
    listed,     \* the result of the first tools/list of the session
    scIn,       \* ScorerSpec: the arguments of score_candidates
    scOut,      \* ScorerSpec: what the last call produced
    scPrev,     \* ScorerSpec: what the call before it produced
    rowOrder,   \* the Store returns the rows of an unordered query descending
    dbIn,       \* DbSpec: the method called and its arguments
    dbOut,      \* DbSpec: what the call produced
    clIn,       \* ClauseSpec: the constraints and the game row looked at
    clOut,      \* ClauseSpec: what _constraint_clauses built
    agent       \* AgentSpec: the orchestrating client's main()

vars == << env, pc, exitCode, dbOpen, tools, store, nRead, line, id_, method,
           params, pending, answered, nOut, resp, exc, prevCode, listed,
           scIn, scOut, scPrev, rowOrder, dbIn, dbOut, clIn, clOut, agent >>

\* what ClauseSpec and AgentSpec change
otherVars == << clIn, clOut, agent >>

\* what only the direct calls of the DBManager methods change
directVars == << scIn, scOut, scPrev, rowOrder, dbIn, dbOut, clIn, clOut, agent >>

serverVars == << env, pc, exitCode, dbOpen, tools, nRead, line, id_, method,
                 params, pending, answered, nOut, resp, exc, prevCode, listed >>

-----------------------------------------------------------------------------
(* Bounds                                                                  *)

MaxLines == 3       \* lines read from stdin in one run
MaxCands == 3       \* length of a candidate list handed to score_candidates
MaxRepeat == 2      \* the same, where the call is made twice

(* Python values                                                           *)

None == "None"      \* Python None, JSON null, and what dict.get gives for a missing key

Gids == {1, 2, 3}   \* game identifiers that occur in requests and in the Store

\* A scalar that arrives where an integer is expected.
\* ty: "int" a JSON integer, "numstr" a string of digits, "badstr" any other
\* string, "null" JSON null.
IdVal(ty, n) == [ty |-> ty, n |-> n]

\* Exceptions, by class name and str(e).
Exc(type, text) == [type |-> type, text |-> text]
NoExc == Exc("none", "")

\* int(x) of Python: the integer, or the exception it raises.
PyInt(v) ==
    CASE v.ty = "int"    -> [ok |-> TRUE,  n |-> v.n, exc |-> NoExc]
      [] v.ty = "numstr" -> [ok |-> TRUE,  n |-> v.n, exc |-> NoExc]
      [] v.ty = "badstr" -> [ok |-> FALSE, n |-> 0,
                             exc |-> Exc("ValueError", "invalid literal for int() with base 10")]
      [] OTHER           -> [ok |-> FALSE, n |-> 0,
                             exc |-> Exc("TypeError", "int() argument must be a string, a bytes-like object or a real number, not 'NoneType'")]

Min(a, b) == IF a <= b THEN a ELSE b
Max(a, b) == IF a >= b THEN a ELSE b

SeqToSet(s) == { s[i] : i \in DOMAIN s }

-----------------------------------------------------------------------------
(* The Store: the rows of the games table that the queries read.           *)
(* avg is the average score in hundredths, votes the vote count; either    *)
(* column may be NULL.                                                     *)

Row(present, avgNull, avg, votesNull, votes) ==
    [present |-> present, avgNull |-> avgNull, avg |-> avg,
     votesNull |-> votesNull, votes |-> votes]

NoRow   == Row(FALSE, TRUE, 0, TRUE, 0)
NullRow == Row(TRUE, TRUE, 0, TRUE, 0)
Rows    == { NoRow, NullRow,
             Row(TRUE, FALSE, 700, FALSE, 99),
             Row(TRUE, FALSE, 650, FALSE, 999) }

Stores == [Gids -> Rows]

\* math.log10(votes + 1.0) on the vote counts of Rows
Log10Plus1(v) ==
    CASE v = 0   -> 0
      [] v = 9   -> 1
      [] v = 99  -> 2
      [] v = 999 -> 3

\* What the cursor raises when the Store cannot answer (statement timeout,
\* lost connection): a psycopg2.Error, which is no ValueError/KeyError/TypeError.
StoreError == Exc("psycopg2.Error", "store request failed")

-----------------------------------------------------------------------------
(* db.py: Constraints                                                      *)

DefaultMinVotes        == 500
DefaultLimitCandidates == 200
DefaultLimitFinal      == 8

ConsFields == { "players", "minplayers", "maxplayers", "maxplaytime",
                "minplaytime", "min_votes", "limit_candidates", "limit_final" }

\* An optional integer: Python None or an int.
OptNone   == [none |-> TRUE, n |-> 0]
OptInt(n) == [none |-> FALSE, n |-> n]

\* A JSON value handed over as the constraints argument.
\* shape "dict": an object with the keys `keys`, val[k] the value under k
\* shape "null": JSON null;  shape "list": any other non-mapping
ConsDict(keys, val) == [shape |-> "dict", keys |-> keys, val |-> val]
ConsNull == [shape |-> "null", keys |-> {}, val |-> [f \in ConsFields |-> OptNone]]

ConsDefault(f) ==
    CASE f = "min_votes"        -> OptInt(DefaultMinVotes)
      [] f = "limit_candidates" -> OptInt(DefaultLimitCandidates)
      [] f = "limit_final"      -> OptInt(DefaultLimitFinal)
      [] OTHER                  -> OptNone

\* Constraints(**constraints): keyword binding with defaults; a key that is
\* present overrides the default with whatever value it carries.
Constraints(d) ==
    [f \in ConsFields |-> IF f \in d.keys THEN d.val[f] ELSE ConsDefault(f)]

-----------------------------------------------------------------------------
(* db.py: DBManager.score_candidates                                       *)

CatWeight  == 55    \* 0.55, in hundredths
DesWeight  == 45    \* 0.45, in hundredths
VoteWeight == 15    \* 0.15, in hundredths

\* One element of the candidates list.
\* kind "int": a bare integer g.n;  kind "dict": an object;  kind "other":
\* anything else (a string, a list, null).
Entry(kind, hasG, g, hasCat, cat, hasDes, des) ==
    [kind |-> kind, hasG |-> hasG, g |-> g, hasCat |-> hasCat, cat |-> cat,
     hasDes |-> hasDes, des |-> des]

Bare(n)           == Entry("int", TRUE, IdVal("int", n), FALSE, 0, FALSE, 0)
Cand(n, c, d)     == Entry("dict", TRUE, IdVal("int", n), TRUE, c, TRUE, d)
CandCat(n, c)     == Entry("dict", TRUE, IdVal("int", n), TRUE, c, FALSE, 0)
CandDes(n, d)     == Entry("dict", TRUE, IdVal("int", n), FALSE, 0, TRUE, d)
CandStr(n, c, d)  == Entry("dict", TRUE, IdVal("numstr", n), TRUE, c, TRUE, d)
CandNoId          == Entry("dict", FALSE, IdVal("null", 0), TRUE, 1, TRUE, 1)
Junk              == Entry("other", FALSE, IdVal("null", 0), FALSE, 0, FALSE, 0)

\* feats: the dict gid -> overlaps, kept as a sequence in insertion order.
Feat(gid, cat, des) == [gid |-> gid, cat |-> cat, des |-> des]

FeatIndex(feats, gid) ==
    IF \E i \in DOMAIN feats : feats[i].gid = gid
    THEN CHOOSE i \in DOMAIN feats : feats[i].gid = gid
    ELSE 0

\* a merge that opens a new row every time an identifier is named
SetDefaultAppend(feats, gid) == Append(feats, Feat(gid, 0, 0))

\* feats.setdefault(gid, {"cat_overlap": 0.0, "designer_overlap": 0.0})
SetDefault(feats, gid) ==
    IF FeatIndex(feats, gid) = 0 THEN Append(feats, Feat(gid, 0, 0)) ELSE feats

\* `if gid in exclude: continue`
IsExcluded(gid, exclude) == gid \in exclude

\* a merge that filters the structured entries only
MergeIntUnfiltered(feats, it, exclude) == SetDefault(feats, it.g.n)

\* a merge that assigns a fresh zero row for every bare integer
MergeIntReset(feats, it, exclude) ==
    IF IsExcluded(it.g.n, exclude) THEN feats
    ELSE IF FeatIndex(feats, it.g.n) = 0 THEN Append(feats, Feat(it.g.n, 0, 0))
    ELSE [feats EXCEPT ![FeatIndex(feats, it.g.n)] = Feat(it.g.n, 0, 0)]

\* One iteration of `for it in candidates` on a bare integer.
MergeInt(feats, it, exclude) ==
    IF IsExcluded(it.g.n, exclude) THEN feats ELSE SetDefault(feats, it.g.n)

\* a merge that keeps the smaller overlap
Lowered(f, it) ==
    Feat(f.gid, IF it.hasCat THEN Min(f.cat, it.cat) ELSE f.cat,
                IF it.hasDes THEN Min(f.des, it.des) ELSE f.des)

\* a merge that adds the overlaps up
Summed(f, it) ==
    Feat(f.gid, IF it.hasCat THEN f.cat + it.cat ELSE f.cat,
                IF it.hasDes THEN f.des + it.des ELSE f.des)

\* a merge in which the entry seen last wins
Overwritten(f, it) ==
    Feat(f.gid, IF it.hasCat THEN it.cat ELSE f.cat, IF it.hasDes THEN it.des ELSE f.des)

\* the overlaps of feats[i] raised to those the dict carries
Raised2(f, it) ==
    Feat(f.gid, IF it.hasCat THEN Max(f.cat, it.cat) ELSE f.cat,
                IF it.hasDes THEN Max(f.des, it.des) ELSE f.des)

UpdateAt(feats, i, it) == [feats EXCEPT ![i] = Raised2(feats[i], it)]

\* One iteration on a dict whose g_id converted to gid.
MergeDict(feats, it, gid, exclude) ==
    IF IsExcluded(gid, exclude) THEN feats
    ELSE UpdateAt(SetDefault(feats, gid), FeatIndex(SetDefault(feats, gid), gid), it)

MergeFail(feats, e) == [ok |-> FALSE, feats |-> feats, exc |-> e]

\* One iteration of `for it in candidates`: [ok, feats, exc]
MergeStep(feats, it, exclude) ==
    CASE it.kind = "int"  -> [ok |-> TRUE, feats |-> MergeInt(feats, it, exclude), exc |-> NoExc]
      [] it.kind = "dict" ->
            IF ~it.hasG THEN MergeFail(feats, Exc("KeyError", "'g_id'"))
            ELSE IF ~PyInt(it.g).ok THEN MergeFail(feats, PyInt(it.g).exc)
            ELSE [ok |-> TRUE, feats |-> MergeDict(feats, it, PyInt(it.g).n, exclude),
                  exc |-> NoExc]
      [] OTHER -> [ok |-> TRUE, feats |-> feats, exc |-> NoExc]

\* The merge loop over what is left of the list, from the state `acc`.
RECURSIVE MergeFrom(_, _, _)
MergeFrom(acc, cands, exclude) ==
    IF cands = << >> \/ ~acc.ok THEN acc
    ELSE MergeFrom(MergeStep(acc.feats, Head(cands), exclude), Tail(cands), exclude)

Merge(feats, cands, exclude) ==
    MergeFrom([ok |-> TRUE, feats |-> feats, exc |-> NoExc], cands, exclude)

\* the exception of the first element int() rejects
FirstIntError(ex) ==
    PyInt(ex[CHOOSE i \in DOMAIN ex : ~PyInt(ex[i]).ok /\ \A j \in 1..(i-1) : PyInt(ex[j]).ok]).exc

\* set(map(int, exclude_g_ids or [])); [ok, set, exc].  ex is a sequence of
\* IdVal; JSON null arrives as the empty sequence through `or []`.
ExcludeSet(ex) ==
    IF \E i \in DOMAIN ex : ~PyInt(ex[i]).ok
    THEN [ok |-> FALSE, set |-> {}, exc |-> FirstIntError(ex)]
    ELSE [ok |-> TRUE, set |-> { PyInt(ex[i]).n : i \in DOMAIN ex }, exc |-> NoExc]

\* a set of integers as the ascending sequence
RECURSIVE Ascending(_)
Ascending(S) ==
    IF S = {} THEN << >>
    ELSE LET m == CHOOSE x \in S : \A y \in S : x <= y
         IN  << m >> \o Ascending(S \ {m})

RECURSIVE Reverse(_)
Reverse(s) == IF s = << >> THEN << >> ELSE Reverse(Tail(s)) \o << Head(s) >>

\* the g_id values of gids that have a row in games
Matching(gids, st) == { g \in SeqToSet(gids) \cap DOMAIN st : st[g].present }

\* the order in which the Store hands out the rows of a query without ORDER BY
StoreOrder(S) == IF rowOrder THEN Reverse(Ascending(S)) ELSE Ascending(S)

\* cur.fetchall() of `SELECT g_id, avgscore, numvotes ... WHERE g_id IN %(gids)s`
FetchAll(gids, st) ==
    [i \in 1..Cardinality(Matching(gids, st)) |->
        [gid |-> StoreOrder(Matching(gids, st))[i],
         row |-> st[StoreOrder(Matching(gids, st))[i]]]]

\* stats = {int(r[0]): (...) for r in rows}: a later row replaces an earlier
\* one with the same g_id
Stats(rows) ==
    [g \in { rows[i].gid : i \in DOMAIN rows } |->
        rows[CHOOSE i \in DOMAIN rows :
                rows[i].gid = g /\ \A j \in DOMAIN rows : rows[j].gid = g => j <= i].row]

\* stats.get(gid, (0.0, 0.0)) over the rows the query returned
StatAvg(st, gid) ==
    IF gid \in DOMAIN st /\ st[gid].present /\ ~st[gid].avgNull THEN st[gid].avg ELSE 0
StatVotes(st, gid) ==
    IF gid \in DOMAIN st /\ st[gid].present /\ ~st[gid].votesNull THEN st[gid].votes ELSE 0

\* quality and score, in hundredths
Quality(st, gid) == StatAvg(st, gid) + VoteWeight * Log10Plus1(StatVotes(st, gid))
Score(st, f) == CatWeight * f.cat + DesWeight * f.des + Quality(st, f.gid)

\* a sort that puts an element in front of the elements it ties with
InsertDescFront(sorted, x) ==
    LET k == Cardinality({ i \in DOMAIN sorted : sorted[i].score > x.score })
    IN  SubSeq(sorted, 1, k) \o << x >> \o SubSeq(sorted, k + 1, Len(sorted))

\* a sort without reverse=True
InsertAsc(sorted, x) ==
    LET k == Cardinality({ i \in DOMAIN sorted : sorted[i].score <= x.score })
    IN  SubSeq(sorted, 1, k) \o << x >> \o SubSeq(sorted, k + 1, Len(sorted))

\* scored.sort(key=score, reverse=True): stable, so an element goes behind
\* every element already placed whose score is at least its own.
InsertDesc(sorted, x) ==
    LET k == Cardinality({ i \in DOMAIN sorted : sorted[i].score >= x.score })
    IN  SubSeq(sorted, 1, k) \o << x >> \o SubSeq(sorted, k + 1, Len(sorted))

RECURSIVE SortDesc(_, _)
SortDesc(done, rest) ==
    IF rest = << >> THEN done ELSE SortDesc(InsertDesc(done, Head(rest)), Tail(rest))

\* scored[:limit]
Slice(s, lim) ==
    IF lim.none THEN s
    ELSE IF lim.n >= 0 THEN SubSeq(s, 1, Min(lim.n, Len(s)))
    ELSE SubSeq(s, 1, Max(Len(s) + lim.n, 0))

\* what a call gives: the list returned or the exception raised, with the
\* merged feats it had built and the number of Store requests it made
ScResult(ok, ids, e, queries, feats) ==
    [ok |-> ok, ids |-> ids, exc |-> e, queries |-> queries, feats |-> feats]

\* a scorer that walks the stats rows instead of the merged identifiers
ScoredByRows(feats, st) ==
    [i \in 1..Cardinality(DOMAIN st) |->
        [gid |-> StoreOrder(DOMAIN st)[i],
         score |-> Score(st, feats[FeatIndex(feats, StoreOrder(DOMAIN st)[i])])]]

\* a scorer that leaves out the identifiers the stats query has no row for
ScoredWithStats(feats, st) ==
    [i \in DOMAIN SelectSeq(feats, LAMBDA f : f.gid \in DOMAIN st) |->
        [gid |-> SelectSeq(feats, LAMBDA f : f.gid \in DOMAIN st)[i].gid,
         score |-> Score(st, SelectSeq(feats, LAMBDA f : f.gid \in DOMAIN st)[i])]]

\* lines 556-566: score every merged identifier, sort, cut
Scored(feats, st) ==
    [i \in DOMAIN feats |-> [gid |-> feats[i].gid, score |-> Score(st, feats[i])]]

GidsOf(rows) == [i \in DOMAIN rows |-> rows[i].gid]

Select(feats, limit, st) == GidsOf(Slice(SortDesc(<< >>, Scored(feats, st)), limit))

\* a scorer that asks the Store once for every merged identifier
ScoreMergedPerId(m, c, st, fault) ==
    IF ~m.ok THEN ScResult(FALSE, << >>, m.exc, 0, m.feats)
    ELSE IF m.feats = << >> THEN ScResult(TRUE, << >>, NoExc, 0, m.feats)
    ELSE IF fault THEN ScResult(FALSE, << >>, StoreError, 1, m.feats)
    ELSE ScResult(TRUE, Select(m.feats, c["limit_final"],
                               Stats(FetchAll(GidsOf(m.feats), st))), NoExc, Len(m.feats),
                  m.feats)

\* a scorer that asks the Store for the stats before it looks at the merged set
ScoreMergedQueryFirst(m, c, st, fault) ==
    IF ~m.ok THEN ScResult(FALSE, << >>, m.exc, 0, m.feats)
    ELSE IF fault THEN ScResult(FALSE, << >>, StoreError, 1, m.feats)
    ELSE ScResult(TRUE, Select(m.feats, c["limit_final"],
                               Stats(FetchAll(GidsOf(m.feats), st))), NoExc, 1, m.feats)

\* lines 536-566, the merge m done
ScoreMerged(m, c, st, fault) ==
    IF ~m.ok THEN ScResult(FALSE, << >>, m.exc, 0, m.feats)
    ELSE IF m.feats = << >> THEN ScResult(TRUE, << >>, NoExc, 0, m.feats)
    ELSE IF fault THEN ScResult(FALSE, << >>, StoreError, 1, m.feats)
    ELSE ScResult(TRUE, Select(m.feats, c["limit_final"],
                               Stats(FetchAll(GidsOf(m.feats), st))), NoExc, 1, m.feats)

\* lines 512-566, the exclusion set ex built
ScoreExcluding(candidates, c, ex, st, fault) ==
    IF ~ex.ok THEN ScResult(FALSE, << >>, ex.exc, 0, << >>)
    ELSE ScoreMerged(Merge(<< >>, candidates, ex.set), c, st, fault)

\* score_candidates(candidates, constraints, exclude_g_ids) against the rows
\* st; fault: the Store request fails.  queries counts the Store requests.
score_candidates(candidates, constraints, exclude_g_ids, st, fault) ==
    IF constraints.shape # "dict"
    THEN ScResult(FALSE, << >>, Exc("TypeError", "argument after ** must be a mapping"), 0,
                  << >>)
    ELSE ScoreExcluding(candidates, Constraints(constraints), ExcludeSet(exclude_g_ids),
                        st, fault)

-----------------------------------------------------------------------------
(* The catalog associations the Store holds besides the stats rows.        *)

Cats      == {1, 2}
Designers == {1, 2}

GameCats(g) == CASE g = 1 -> {1, 2} [] g = 2 -> {1} [] OTHER -> {2}
GameDes(g)  == CASE g = 1 -> {1}    [] g = 2 -> {1, 2} [] OTHER -> {}

\* the games whose name contains the query, lower-cased
NameMatches(q) == CASE q = "cat" -> {1, 2} [] q = "" -> Gids [] OTHER -> {}

\* Values the tools return, before and after serialisation.
\* ty: "none" (None), "tools", "ids" (list of int), "Boardgame", "Boardgames",
\* "Categories", "Designers" (model objects); "dict"/"dicts:*" once to_dict
\* has been applied; "cands" (list of candidate dicts, ovl the overlaps)
Value(ty, ids, ovl, tl) == [ty |-> ty, ids |-> ids, ovl |-> ovl, tools |-> tl]
NoneValue == Value("none", << >>, << >>, << >>)

\* the outcome of a call: a value, or an exception
Returned(v) == [ok |-> TRUE, value |-> v, exc |-> NoExc]
Raised(e)   == [ok |-> FALSE, value |-> NoneValue, exc |-> e]

\* A Store operation: the answer, or the Store's error when it cannot answer.
ViaStore(v, fault) == IF fault THEN Raised(StoreError) ELSE Returned(v)

\* what a call did: its outcome, the profile fetches it made, the number of
\* Store requests, and whether the Store was failing
DbResult(out, calls, queries, fault) ==
    [done |-> TRUE, ok |-> out.ok, value |-> out.value, exc |-> out.exc, calls |-> calls,
     queries |-> queries, fault |-> fault]

\* the outcome alone
OutcomeOf(r) == [ok |-> r.ok, value |-> r.value, exc |-> r.exc]

RankRows(base, key, key2) ==
    [i \in DOMAIN base |-> [gid |-> base[i], score |-> 1000 * key[base[i]] + key2[base[i]]]]

\* Rank identifiers by key descending, then by second key descending.
RankBy(S, key, key2) == SortDesc(<< >>, RankRows(Ascending(S), key, key2))

\* a profile fetch that answers a miss with an empty record
get_game_profile_default(g, st) ==
    IF g \in DOMAIN st /\ st[g].present
    THEN Value("Boardgame", << g >>, << >>, << >>)
    ELSE Value("Boardgame", << 0 >>, << >>, << >>)

\* DBManager.get_game_profile: the hydrated game, or None
get_game_profile(g, st) ==
    IF g \in DOMAIN st /\ st[g].present
    THEN Value("Boardgame", << g >>, << >>, << >>)
    ELSE NoneValue

\* DBManager.get_games_by_name: matches by popularity, at most `limit`
get_games_by_name(q, limit, st) ==
    Value("Boardgames",
          GidsOf(Slice(RankBy({ g \in NameMatches(q) : st[g].present },
                              [g \in Gids |-> StatVotes(st, g)], [g \in Gids |-> 0]), limit)),
          << >>, << >>)

\* DBManager.search_categories / search_designers
search_categories(q, limit) ==
    Value("Categories", Slice(Ascending(IF q = "cat" THEN {1} ELSE Cats), limit), << >>, << >>)
search_designers(q, limit) ==
    Value("Designers", Slice(Ascending(IF q = "cat" THEN {} ELSE Designers), limit), << >>, << >>)

\* the vote floor of the constraints: NULL votes pass
PassesVotes(st, g, c) ==
    st[g].present /\ (st[g].votesNull \/ c["min_votes"].none \/ st[g].votes >= c["min_votes"].n)

\* candidate_by_categories / candidate_by_designers: games sharing an
\* identifier with ids, by overlap then votes, at most limit_candidates
Overlap(attr, ids) == [g \in Gids |-> Cardinality(attr[g] \cap SeqToSet(ids))]

Hits(ovl, c, st) == { g \in Gids : ovl[g] >= 1 /\ PassesVotes(st, g, c) }

CandValue(top, ovl) ==
    Value("cands", GidsOf(top), [i \in DOMAIN top |-> ovl[top[i].gid]], << >>)

\* a generator that ranks by overlap alone
CandRankByOverlap(ovl, c, st) ==
    CandValue(Slice(RankBy(Hits(ovl, c, st), ovl, [g \in Gids |-> 0]),
                    c["limit_candidates"]), ovl)

\* a generator without LIMIT
CandRankUncapped(ovl, c, st) ==
    CandValue(RankBy(Hits(ovl, c, st), ovl, [g \in Gids |-> StatVotes(st, g)]), ovl)

CandRank(ovl, c, st) ==
    CandValue(Slice(RankBy(Hits(ovl, c, st), ovl, [g \in Gids |-> StatVotes(st, g)]),
                    c["limit_candidates"]), ovl)

Candidates(attr, ids, consArg, st) ==
    IF ids = << >> THEN Value("cands", << >>, << >>, << >>)
    ELSE CandRank(Overlap(attr, ids),
                  Constraints(IF consArg.shape = "dict" THEN consArg
                              ELSE ConsDict({}, consArg.val)), st)

\* a generator that sends its query whatever the identifier set
CandCallUnguarded(attr, ids, consArg, st, fault) ==
    DbResult(ViaStore(CandRank(Overlap(attr, ids),
                               Constraints(IF consArg.shape = "dict" THEN consArg
                                           ELSE ConsDict({}, consArg.val)), st), fault),
             << >>, 1, fault)

\* a candidate generator with its Store request: none for an empty set
CandCall(attr, ids, consArg, st, fault) ==
    IF ids = << >> THEN DbResult(Returned(Candidates(attr, ids, consArg, st)), << >>, 0, fault)
    ELSE DbResult(ViaStore(Candidates(attr, ids, consArg, st), fault), << >>, 1, fault)

candidate_by_categories(ids, consArg, st, fault) ==
    CandCall([g \in Gids |-> GameCats(g)], ids, consArg, st, fault)
candidate_by_designers(ids, consArg, st, fault) ==
    CandCall([g \in Gids |-> GameDes(g)], ids, consArg, st, fault)

\* a loop that leaves out a game it has already collected
RECURSIVE FetchFromDedup(_, _, _, _, _)
FetchFromDedup(i, games, g_ids, st, fault) ==
    IF i > Len(g_ids)
    THEN DbResult(Returned(Value("Boardgames", games, << >>, << >>)), g_ids, Len(g_ids), fault)
    ELSE IF fault THEN DbResult(Raised(StoreError), SubSeq(g_ids, 1, i), i, fault)
    ELSE FetchFromDedup(i + 1,
                        IF get_game_profile(g_ids[i], st).ty = "none"
                           \/ get_game_profile(g_ids[i], st).ids[1] \in SeqToSet(games)
                        THEN games
                        ELSE Append(games, get_game_profile(g_ids[i], st).ids[1]),
                        g_ids, st, fault)

\* `for g_id in g_ids: game = self.get_game_profile(g_id); if game: ...`
\* from the i-th identifier on; a failing Store raises out of the loop
RECURSIVE FetchFrom(_, _, _, _, _)
FetchFrom(i, games, g_ids, st, fault) ==
    IF i > Len(g_ids)
    THEN DbResult(Returned(Value("Boardgames", games, << >>, << >>)), g_ids, Len(g_ids), fault)
    ELSE IF fault THEN DbResult(Raised(StoreError), SubSeq(g_ids, 1, i), i, fault)
    ELSE FetchFrom(i + 1,
                   IF get_game_profile(g_ids[i], st).ty = "none" THEN games
                   ELSE Append(games, get_game_profile(g_ids[i], st).ids[1]),
                   g_ids, st, fault)

\* DBManager.fetch_game_cards
fetch_game_cards(g_ids, st, fault) ==
    IF g_ids = << >>
    THEN DbResult(Returned(Value("Boardgames", << >>, << >>, << >>)), << >>, 0, fault)
    ELSE FetchFrom(1, << >>, g_ids, st, fault)

\* _to_json_serializable / _jsonable: model objects become dicts
Jsonable(v) ==
    CASE v.ty = "Boardgame"  -> [v EXCEPT !.ty = "dict:game"]
      [] v.ty = "Boardgames" -> [v EXCEPT !.ty = "dicts:game"]
      [] v.ty = "Categories" -> [v EXCEPT !.ty = "dicts:category"]
      [] v.ty = "Designers"  -> [v EXCEPT !.ty = "dicts:designer"]
      [] OTHER               -> v

-----------------------------------------------------------------------------
(* mcp_server.py: the tool registry                                        *)

Schema(props, required) == [properties |-> props, required |-> required]

\* positional: the parameters of the bound lambda that have no default
ToolEntry(name, description, schema, positional) ==
    [name |-> name, description |-> description, inputSchema |-> schema,
     fn |-> [target |-> name, positional |-> positional]]

Registry == <<
    ToolEntry("get_games_by_name", "Find games by (substring) name.",
              Schema(<<"name_query", "limit">>, <<"name_query">>), {"name_query"}),
    ToolEntry("get_game_profile",
              "Fetch a denormalized game profile (stats + categories + designers).",
              Schema(<<"g_id">>, <<"g_id">>), {"g_id"}),
    ToolEntry("search_categories",
              "Search for categories by name substring. Omit query to list all categories.",
              Schema(<<"query", "limit">>, << >>), {}),
    ToolEntry("search_designers",
              "Search for designers by name substring. Omit query to list all designers.",
              Schema(<<"query", "limit">>, << >>), {}),
    ToolEntry("candidate_by_categories",
              "Generate candidates by category overlap. Use search_categories first to get category IDs from names.",
              Schema(<<"c_ids", "constraints">>, <<"c_ids", "constraints">>), {"c_ids"}),
    ToolEntry("candidate_by_designers",
              "Generate candidates by designer overlap. Use search_designers first to get designer IDs from names.",
              Schema(<<"des_ids", "constraints">>, <<"des_ids", "constraints">>), {"des_ids"}),
    ToolEntry("score_candidates", "Combine candidate signals, score to select final IDs.",
              Schema(<<"candidates", "constraints", "exclude_g_ids">>,
                     <<"candidates", "constraints", "exclude_g_ids">>),
              {"candidates", "constraints", "exclude_g_ids"}),
    ToolEntry("fetch_game_cards", "Fetch final denormalized game cards for display.",
              Schema(<<"g_ids">>, <<"g_ids">>), {"g_ids"}) >>

ToolNames(t) == { t[i].name : i \in DOMAIN t }
ToolAt(t, name) == t[CHOOSE i \in DOMAIN t : t[i].name = name]

\* a listing that leaves out the tool registered last
ListToolsTruncated(t) ==
    [i \in 1..(Len(t) - 1) |-> [name |-> t[i].name, description |-> t[i].description,
                                inputSchema |-> t[i].inputSchema]]

\* a listing that hands out the registry entries themselves
ListToolsRaw(t) == t

\* the list comprehension of tools/list
ListTools(t) ==
    [i \in DOMAIN t |-> [name |-> t[i].name, description |-> t[i].description,
                         inputSchema |-> t[i].inputSchema]]

-----------------------------------------------------------------------------
(* Requests                                                                *)

\* The arguments object of a tools/call.
\* shape "missing": no arguments key, null or an empty value (`or {}`)
\* shape "nonmapping": a non-empty value that is no object
\* shape "dict": an object with the keys `keys`
Args(shape, keys, g_id, ids, query, limit, candidates, constraints, exclude) ==
    [shape |-> shape, keys |-> keys, g_id |-> g_id, ids |-> ids, query |-> query,
     limit |-> limit, candidates |-> candidates, constraints |-> constraints,
     exclude |-> exclude]

ConsEmpty == ConsDict({}, [f \in ConsFields |-> OptNone])
ConsLimit(n) == ConsDict({"limit_final"}, [f \in ConsFields |-> OptInt(n)])

NoArgs  == Args("missing", {}, IdVal("null", 0), << >>, "", OptNone, << >>, ConsEmpty, << >>)
BadArgs == [NoArgs EXCEPT !.shape = "nonmapping"]
Dict(keys) == [NoArgs EXCEPT !.shape = "dict", !.keys = keys]

\* The params value of a request.
\* shape "missing": no params key, null, or any empty value (`or {}`)
\* shape "nonobject": a non-empty value that is no object
\* name: None when the key is missing; "[unhashable]" a list or an object
Params(shape, name, args) == [shape |-> shape, name |-> name, args |-> args]
NoParams     == Params("missing", None, NoArgs)
NonObjParams == Params("nonobject", None, NoArgs)
EmptyObject  == Params("object", None, NoArgs)
Unhashable   == "[unhashable]"

\* `req.get("params") or {}`
ParamsOrEmpty(p) == IF p.shape = "missing" THEN EmptyObject ELSE p

\* `params.get("arguments") or {}`
ArgsOrEmpty(a) == IF a.shape = "missing" THEN Dict({}) ELSE a

-----------------------------------------------------------------------------
(* mcp_server.py: calling a tool                                           *)

DefaultSearchLimit == 10

ArgLimit(a) == IF "limit" \in a.keys THEN a.limit ELSE OptInt(DefaultSearchLimit)

ProfileOutcome(g, st, fault) ==
    IF ~g.ok THEN Raised(g.exc) ELSE ViaStore(get_game_profile(g.n, st), fault)

ScoreOutcome(r) ==
    IF r.ok THEN Returned(Value("ids", r.ids, << >>, << >>)) ELSE Raised(r.exc)

ArgQuery(a) == IF "query" \in a.keys THEN a.query ELSE ""
ArgCons(a)  == IF "constraints" \in a.keys THEN a.constraints ELSE ConsNull

\* The body of the lambda registered under `target`, its parameters bound.
\* The generators and fetch_game_cards return before any Store request when
\* their identifier list is empty.
ToolBody(target, a, st, fault) ==
    CASE target = "get_games_by_name" ->
            ViaStore(get_games_by_name(a.query, ArgLimit(a), st), fault)
      [] target = "get_game_profile" ->
            ProfileOutcome(PyInt(a.g_id), st, fault)
      [] target = "search_categories" ->
            ViaStore(search_categories(ArgQuery(a), ArgLimit(a)), fault)
      [] target = "search_designers" ->
            ViaStore(search_designers(ArgQuery(a), ArgLimit(a)), fault)
      [] target = "candidate_by_categories" ->
            OutcomeOf(candidate_by_categories(a.ids, ArgCons(a), st, fault))
      [] target = "candidate_by_designers" ->
            OutcomeOf(candidate_by_designers(a.ids, ArgCons(a), st, fault))
      [] target = "score_candidates" ->
            ScoreOutcome(score_candidates(a.candidates, a.constraints, a.exclude, st, fault))
      [] target = "fetch_game_cards" ->
            OutcomeOf(fetch_game_cards(a.ids, st, fault))

\* Python's binding of fn(**arguments): every parameter without a default
\* has to be among the keys.
Binds(fn, a) == fn.positional \subseteq a.keys

\* tools[name]["fn"](**arguments)
CallTool(t, name, a, st, fault) ==
    IF a.shape = "nonmapping"
    THEN Raised(Exc("TypeError", "argument after ** must be a mapping"))
    ELSE IF ~Binds(ToolAt(t, name).fn, a)
    THEN Raised(Exc("TypeError", "<lambda>() missing required positional argument"))
    ELSE ToolBody(ToolAt(t, name).fn.target, a, st, fault)

-----------------------------------------------------------------------------
(* mcp_server.py: responses                                                *)

Data(key, value) == [key |-> key, value |-> value]
NoData == Data(None, "")

Response(kind, id, code, message, data, result) ==
    [kind |-> kind, id |-> id, code |-> code, message |-> message, data |-> data,
     result |-> result]

NoResp == Response("none", None, 0, "", NoData, NoneValue)

ParseErrorCode    == -32700
NotFoundCode      == -32601
ToolErrorCode     == -32001
StartupErrorCode  == -32000

\* an error response that never names the request
_error_noid(i, code, message, data) == Response("error", None, code, message, data, NoneValue)

\* _error(id_, code, message, data)
_error(i, code, message, data) == Response("error", i, code, message, data, NoneValue)

\* _ok(id_, result)
_ok(i, result) == Response("result", i, 0, "", NoData, result)

-----------------------------------------------------------------------------
(* mcp_server.py: one request through the try block                        *)

Respond(r) == [kind |-> "respond", resp |-> r, exc |-> NoExc]
Raise(e)   == [kind |-> "raise", resp |-> NoResp, exc |-> e]

\* `name not in tools`: hashing a list or an object raises TypeError
NameLookup(t, name) ==
    IF name = Unhashable THEN [ok |-> FALSE, found |-> FALSE]
    ELSE [ok |-> TRUE, found |-> name \in ToolNames(t)]

\* lines 280-283: the tool's value serialised and printed, or its exception
CallOutcome(i, r) == IF r.ok THEN Respond(_ok(i, Jsonable(r.value))) ELSE Raise(r.exc)

\* lines 272-284
ToolsCall(t, i, p, st, fault) ==
    IF p.shape = "nonobject"
    THEN Raise(Exc("AttributeError", "object has no attribute 'get'"))
    ELSE IF ~NameLookup(t, p.name).ok THEN Raise(Exc("TypeError", "unhashable type"))
    ELSE IF ~NameLookup(t, p.name).found
    THEN Respond(_error(i, NotFoundCode, "Unknown tool: " \o p.name, NoData))
    ELSE CallOutcome(i, CallTool(t, p.name, ArgsOrEmpty(p.args), st, fault))

\* The statements inside `try:`; what is printed, or the exception that leaves it.
TryBlock(t, i, m, p, st, fault) ==
    IF m = "tools/list" THEN Respond(_ok(i, Value("tools", << >>, << >>, ListTools(t))))
    ELSE IF m = "tools/call" THEN ToolsCall(t, i, p, st, fault)
    ELSE Respond(_error(i, NotFoundCode, "Unknown method: " \o m, NoData))

\* `except Exception as e`
CatchesAll(type) == TRUE

\* `except (ValueError, TypeError) as e`
CatchesNoKeyError(type) == type \in {"ValueError", "TypeError"}

\* `except (ValueError, KeyError, TypeError) as e`
Recoverable(type) == type \in {"ValueError", "KeyError", "TypeError"}

\* lines 289-291: the except clause applied to what the try block did
Except(i, r) ==
    IF r.kind = "raise" /\ Recoverable(r.exc.type)
    THEN [kind |-> "respond",
          resp |-> _error(i, ToolErrorCode, "Tool error", Data("error", r.exc.text)),
          exc  |-> r.exc]
    ELSE r

\* The try statement as a whole: the response printed, or the exception
\* that propagates out of main().
Handle(t, i, m, p, st, fault) == Except(i, TryBlock(t, i, m, p, st, fault))

-----------------------------------------------------------------------------
(* Lines on stdin                                                          *)

\* A line is its raw text; for a text that is JSON, val is the value
\* json.loads gives for it.
Req(obj, i, m, p) == [obj |-> obj, id |-> i, method |-> m, params |-> p]
NonObject == Req(FALSE, None, None, NoParams)     \* a list, a number, a string, null

Line(raw, val) == [raw |-> raw, val |-> val]
NoLine == Line("", NonObject)

\* a loop that hands json.loads the line as read
NoStrip(raw) == raw

\* str.strip() on the raw texts used here
Strip(raw) ==
    CASE raw = "   "       -> ""
      [] raw = "  {bad  "  -> "{bad"
      [] OTHER             -> raw

\* texts json.loads rejects (the empty and the all-blank text among them)
NotJsonTexts == { "", "   ", "{bad", "  {bad  ", "tools/list" }

\* json.loads(text): the value, or JSONDecodeError
JsonLoads(text, val) ==
    IF text \in NotJsonTexts THEN [ok |-> FALSE, val |-> NonObject]
    ELSE [ok |-> TRUE, val |-> val]

Ids     == { None, "7" }
Methods == { None, "tools/list", "tools/call", "resources/list" }

ScoreArgs(cands, cons, excl) ==
    [Dict({"candidates", "constraints", "exclude_g_ids"})
        EXCEPT !.candidates = cands, !.constraints = cons, !.exclude = excl]

ArgSamples(name) ==
    CASE name = "get_games_by_name" ->
            { Dict({}),
              [Dict({"name_query"}) EXCEPT !.query = "cat"],
              [Dict({"name_query", "limit"}) EXCEPT !.query = "cat", !.limit = OptInt(1)] }
      [] name = "get_game_profile" ->
            { NoArgs, BadArgs }
            \cup { [Dict({"g_id"}) EXCEPT !.g_id = v] :
                     v \in { IdVal("int", 1), IdVal("numstr", 2), IdVal("badstr", 0),
                             IdVal("null", 0) } }
      [] name = "search_categories" ->
            { NoArgs, [Dict({"query"}) EXCEPT !.query = "cat"] }
      [] name = "search_designers" ->
            { Dict({}) }
      [] name = "candidate_by_categories" ->
            { Dict({"constraints"}),
              Dict({"c_ids", "constraints"}),
              [Dict({"c_ids"}) EXCEPT !.ids = << 1, 2 >>],
              [Dict({"c_ids", "constraints"}) EXCEPT !.ids = << 2 >>,
                    !.constraints = ConsDict({"min_votes"}, [f \in ConsFields |-> OptInt(0)])] }
      [] name = "candidate_by_designers" ->
            { [Dict({"des_ids", "constraints"}) EXCEPT !.ids = << 1 >>] }
      [] name = "score_candidates" ->
            { Dict({"candidates", "constraints"}),
              ScoreArgs(<< >>, ConsEmpty, << >>),
              ScoreArgs(<< Cand(1, 1, 0), Bare(2), CandDes(3, 2) >>, ConsLimit(2),
                        << IdVal("int", 1) >>),
              ScoreArgs(<< CandNoId >>, ConsEmpty, << >>),
              ScoreArgs(<< Bare(1) >>, ConsNull, << >>),
              ScoreArgs(<< Bare(1) >>, ConsEmpty, << IdVal("badstr", 0) >>) }
      [] name = "fetch_game_cards" ->
            { Dict({}), Dict({"g_ids"}), [Dict({"g_ids"}) EXCEPT !.ids = << 3, 1 >>] }

ParamSamples ==
    { NoParams, NonObjParams }
    \cup { Params("object", n, NoArgs) : n \in { None, "no_such_tool", Unhashable } }
    \cup UNION { { Params("object", n, a) : a \in ArgSamples(n) } : n \in ToolNames(Registry) }

Requests ==
    { NonObject }
    \cup { Req(TRUE, i, m, p) : i \in Ids, m \in Methods \ {"tools/call"},
                                p \in { NoParams, NonObjParams } }
    \cup { Req(TRUE, i, "tools/call", p) : i \in Ids, p \in ParamSamples }

Lines ==
    { Line(raw, NonObject) : raw \in { "", "   ", "{bad", "  {bad  ", "tools/list" } }
    \cup { Line("<json>", v) : v \in Requests }

\* a loop that only skips the line that is empty as read
IsBlankEmptyOnly(l) == l.raw = ""

\* `line = line.strip()` then `if not line`
IsBlank(l)   == Strip(l.raw) = ""

-----------------------------------------------------------------------------
(* mcp_server.py: main(), start-up                                         *)

CredVals == { "unset", "empty", "set" }    \* os.environ.get: None, "", a value
PortVals == { "unset", "int", "bad" }      \* DB_PORT: absent, digits, anything else

Envs == [host : CredVals, database : CredVals, user : CredVals, password : CredVals,
         port : PortVals]

\* int(os.environ.get("DB_PORT", "5432")) raises ValueError on a malformed port
PortParses(e) == e.port # "bad"

\* all([host, database, user, password]): None and "" are falsy
AllCreds(e) == e.host = "set" /\ e.database = "set" /\ e.user = "set" /\ e.password = "set"

ServerStores ==
    { [g \in Gids |-> NoRow],
      [g \in Gids |-> IF g = 1 THEN Row(TRUE, FALSE, 700, FALSE, 99)
                      ELSE IF g = 2 THEN Row(TRUE, FALSE, 650, FALSE, 999) ELSE NoRow],
      [g \in Gids |-> IF g = 1 THEN NullRow ELSE Row(TRUE, FALSE, 650, FALSE, 999)] }

NoListed == [seen |-> FALSE, value |-> << >>]

NoScIn  == [candidates |-> << >>, constraints |-> ConsEmpty, exclude |-> << >>]
NoScOut == [done |-> FALSE, ok |-> FALSE, ids |-> << >>, exc |-> NoExc, queries |-> 0,
            feats |-> << >>, desc |-> FALSE]

NoDbIn  == [fn |-> None, ids |-> << >>, constraints |-> ConsEmpty]
NoDbOut ==
    [done |-> FALSE, ok |-> FALSE, value |-> NoneValue, exc |-> NoExc, calls |-> << >>,
     queries |-> 0, fault |-> FALSE]

\* a row of the games table as the WHERE clause sees it; numvotes may be
\* NULL, and so may the player and playtime columns named in nulls
GameRow(minplayers, maxplayers, minplaytime, maxplaytime, votesNull, numvotes) ==
    [minplayers |-> minplayers, maxplayers |-> maxplayers, minplaytime |-> minplaytime,
     maxplaytime |-> maxplaytime, votesNull |-> votesNull, numvotes |-> numvotes,
     nulls |-> {}]

NullIn(g, cols) == [g EXCEPT !.nulls = cols]

NoClIn  == [constraints |-> ConsEmpty, game |-> GameRow(0, 0, 0, 0, TRUE, 0)]
NoClOut == [done |-> FALSE, where |-> << >>, keys |-> {},
            val |-> [f \in ConsFields |-> OptNone], holds |-> {}]

\* the client before it is started
\* the client: where main() is, the step of the tool loop, the tools/call
\* requests and the tool messages of the current turn, the turns ended, the
\* last reply of the model, the server subprocess, the exit status and why,
\* the request ids written so far and those written more than once
NoAgent == [pc |-> "off", step |-> 0, calls |-> 0, fed |-> 0, answered |-> FALSE,
            turns |-> 0, tool_calls |-> FALSE, content |-> FALSE, exit |-> -1,
            cause |-> "none", proc |-> "none", toolError |-> FALSE,
            sent |-> {}, resent |-> {}]

\* ClauseSpec and AgentSpec are not running
Idle == clIn = NoClIn /\ clOut = NoClOut /\ agent = NoAgent

Init ==
    /\ env \in Envs
    /\ store \in ServerStores
    /\ pc = "start"
    /\ exitCode = -1
    /\ dbOpen = FALSE
    /\ tools = << >>
    /\ nRead = 0
    /\ line = NoLine
    /\ id_ = None
    /\ method = None
    /\ params = EmptyObject
    /\ pending = {}
    /\ answered = 0
    /\ nOut = 0
    /\ resp = NoResp
    /\ exc = NoExc
    /\ prevCode = "none"
    /\ listed = NoListed
    /\ scIn = NoScIn
    /\ scOut = NoScOut
    /\ scPrev = NoScOut
    /\ rowOrder \in BOOLEAN
    /\ dbIn = NoDbIn
    /\ dbOut = NoDbOut
    /\ Idle

\* print(json.dumps(r), flush=True)
Write(r) ==
    /\ resp' = r
    /\ nOut' = nOut + 1
    /\ answered' = answered + 1

\* An exception leaves main(): traceback, exit status 1.
Crash(e) ==
    /\ pc' = "crashed"
    /\ exitCode' = 1
    /\ exc' = e

\* line 140: the port is converted before the credentials are looked at
StartBadPort ==
    /\ pc = "start"
    /\ ~PortParses(env)
    /\ Crash(Exc("ValueError", "invalid literal for int() with base 10"))
    /\ UNCHANGED << env, dbOpen, tools, store, nRead, line, id_, method, params,
                    pending, answered, nOut, resp, prevCode, listed, directVars >>

\* lines 142-145
StartNoCreds ==
    /\ pc = "start"
    /\ PortParses(env)
    /\ ~AllCreds(env)
    /\ Write(_error(None, StartupErrorCode, "Database credentials not set", NoData))
    /\ pc' = "exited"
    /\ exitCode' = 2
    /\ UNCHANGED << env, dbOpen, tools, store, nRead, line, id_, method, params,
                    pending, exc, prevCode, listed, directVars >>

\* lines 147-246: DBManager(...) connects, then the registry is built
StartConnect ==
    /\ pc = "start"
    /\ PortParses(env)
    /\ AllCreds(env)
    /\ \E connected \in BOOLEAN :
          IF connected
          THEN /\ dbOpen' = TRUE
               /\ tools' = Registry
               /\ pc' = "ready"
               /\ UNCHANGED << exitCode, exc >>
          ELSE /\ Crash(Exc("psycopg2.OperationalError", "could not connect"))
               /\ UNCHANGED << dbOpen, tools >>
    /\ UNCHANGED << env, store, nRead, line, id_, method, params, pending, answered,
                    nOut, resp, prevCode, listed, directVars >>

-----------------------------------------------------------------------------
(* mcp_server.py: main(), the line loop                                    *)

\* how a line ended, for the line after it
Tag(r) ==
    CASE r.kind = "result"        -> "result"
      [] r.code = ParseErrorCode  -> "parse"
      [] r.code = NotFoundCode    -> "notfound"
      [] r.code = ToolErrorCode   -> "toolerror"
      [] OTHER                    -> "none"

\* a reader that takes the next line while a request is still being served
CanReadEarly == pc \in { "ready", "dispatching" }

\* `for line in sys.stdin` yields the next line only when the body has
\* run to its end (or to a continue)
CanRead == pc = "ready"

\* lines 248-251
ReadLine ==
    /\ CanRead
    /\ nRead < MaxLines
    /\ \E l \in Lines :
          /\ line' = l
          /\ IF IsBlank(l)
             THEN pc' = "ready" /\ pending' = pending
             ELSE pc' = "parsing" /\ pending' = pending \cup { nRead + 1 }
    /\ nRead' = nRead + 1
    /\ prevCode' = IF IsBlank(line) THEN prevCode ELSE Tag(resp)
    /\ answered' = 0
    /\ exc' = NoExc
    /\ UNCHANGED << env, exitCode, dbOpen, tools, store, id_, method, params, nOut,
                    resp, listed, directVars >>

\* stdin is closed: the for loop ends and main() returns
Eof ==
    /\ CanRead
    /\ pc' = "eof"
    /\ exitCode' = 0
    /\ UNCHANGED << env, dbOpen, tools, store, nRead, line, id_, method, params,
                    pending, answered, nOut, resp, exc, prevCode, listed, directVars >>

\* an id that is only overwritten when the request carries one
GetIdStale(req, old) == IF req.id = None THEN old ELSE req.id

\* req.get("id")
GetId(req, old) == req.id

ParseFailed(text) ==
    /\ Write(_error(None, ParseErrorCode, "Parse error", Data("line", text)))
    /\ exc' = Exc("JSONDecodeError", "Expecting value")
    /\ pc' = "ready"
    /\ pending' = pending \ { nRead }
    /\ UNCHANGED << exitCode, id_, method, params >>

Parsed(req) ==
    IF ~req.obj
    THEN /\ Crash(Exc("AttributeError", "object has no attribute 'get'"))
         /\ UNCHANGED << id_, method, params, pending, answered, nOut, resp >>
    ELSE /\ id_' = GetId(req, id_)
         /\ method' = req.method
         /\ params' = ParamsOrEmpty(req.params)
         /\ pc' = "dispatching"
         /\ UNCHANGED << exitCode, exc, pending, answered, nOut, resp >>

\* lines 252-262
Parse ==
    /\ pc = "parsing"
    /\ IF JsonLoads(Strip(line.raw), line.val).ok
       THEN Parsed(JsonLoads(Strip(line.raw), line.val).val)
       ELSE ParseFailed(Strip(line.raw))
    /\ UNCHANGED << env, dbOpen, tools, store, nRead, line, prevCode, listed, directVars >>

\* the registry after a request has been handled: nothing assigns to it
ToolsAfter(t, m, p) == t

Finish(h) ==
    IF h.kind = "respond"
    THEN /\ Write(h.resp)
         /\ exc' = h.exc
         /\ pc' = "ready"
         /\ pending' = pending \ { nRead }
         /\ listed' = IF method = "tools/list" /\ ~listed.seen
                      THEN [seen |-> TRUE, value |-> h.resp.result.tools]
                      ELSE listed
         /\ UNCHANGED exitCode
    ELSE /\ Crash(h.exc)
         /\ UNCHANGED << pending, answered, nOut, resp, listed >>

\* lines 264-291
Dispatch ==
    /\ pc = "dispatching"
    /\ \E fault \in BOOLEAN : Finish(Handle(tools, id_, method, params, store, fault))
    /\ tools' = ToolsAfter(tools, method, params)
    /\ UNCHANGED << env, dbOpen, store, nRead, line, id_, method, params, prevCode,
                    directVars >>

Next ==
    \/ StartBadPort
    \/ StartNoCreds
    \/ StartConnect
    \/ ReadLine
    \/ Eof
    \/ Parse
    \/ Dispatch

Spec == Init /\ [][Next]_vars

-----------------------------------------------------------------------------
(* ScorerSpec: DBManager.score_candidates called directly, as the unit     *)
(* tests of test_db_mcp.py do, on every input within the bounds.           *)

ScEntries ==
    { Bare(1), Bare(2), Cand(1, 1, 0), Cand(1, 0, 2), CandCat(2, 2),
      CandStr(3, 0, 1), Cand(3, -1, -1), CandNoId, Junk }

ConsLimitNone == ConsDict({"limit_final"}, [f \in ConsFields |-> OptNone])

ScCons == { ConsEmpty, ConsLimit(0), ConsLimit(1), ConsLimit(-1), ConsLimitNone, ConsNull }

ScExcludes ==
    { << >>, << IdVal("int", 1) >>, << IdVal("numstr", 2), IdVal("int", 3) >>,
      << IdVal("int", 2), IdVal("badstr", 0) >> }

ScStores ==
    { [g \in Gids |-> NoRow],
      [g \in Gids |-> IF g = 3 THEN NullRow ELSE Row(TRUE, FALSE, 700, FALSE, 99)],
      [g \in Gids |-> IF g = 1 THEN Row(TRUE, FALSE, 650, FALSE, 999)
                      ELSE IF g = 2 THEN Row(TRUE, FALSE, 700, FALSE, 99) ELSE NoRow] }

SeqsUpTo(S, n) == UNION { [1..k -> S] : k \in 0..n }

\* the state before a direct call of a DBManager method: a connected handle,
\* no server loop
DirectInit ==
    /\ env = [host |-> "set", database |-> "set", user |-> "set", password |-> "set",
              port |-> "unset"]
    /\ pc = "call"
    /\ exitCode = -1
    /\ dbOpen = TRUE
    /\ tools = << >>
    /\ nRead = 0
    /\ line = NoLine
    /\ id_ = None
    /\ method = None
    /\ params = EmptyObject
    /\ pending = {}
    /\ answered = 0
    /\ nOut = 0
    /\ resp = NoResp
    /\ exc = NoExc
    /\ prevCode = "none"
    /\ listed = NoListed

ScInit ==
    /\ DirectInit
    /\ store \in ScStores
    /\ scIn \in [candidates : SeqsUpTo(ScEntries, MaxCands), constraints : ScCons,
                 exclude : ScExcludes]
    /\ scOut = NoScOut
    /\ scPrev = NoScOut
    /\ rowOrder \in BOOLEAN
    /\ dbIn = NoDbIn
    /\ dbOut = NoDbOut
    /\ Idle

Called(r) ==
    [done |-> TRUE, ok |-> r.ok, ids |-> r.ids, exc |-> r.exc, queries |-> r.queries,
     feats |-> r.feats, desc |-> rowOrder]

\* db.score_candidates(candidates, constraints, exclude_g_ids)
ScCall ==
    /\ ~scOut.done
    /\ \E fault \in BOOLEAN :
          scOut' = Called(score_candidates(scIn.candidates, scIn.constraints,
                                           scIn.exclude, store, fault))
    /\ UNCHANGED << serverVars, store, scIn, scPrev, rowOrder, dbIn, dbOut, otherVars >>

ScNext == ScCall

ScorerSpec == ScInit /\ [][ScNext]_vars

-----------------------------------------------------------------------------
(* RepeatSpec: score_candidates called a second time with the arguments    *)
(* and the Store contents of the first call.                               *)

RpInit ==
    /\ DirectInit
    /\ store \in ScStores
    /\ scIn \in [candidates : SeqsUpTo(ScEntries, MaxRepeat), constraints : ScCons,
                 exclude : ScExcludes]
    /\ scOut = NoScOut
    /\ scPrev = NoScOut
    /\ rowOrder \in BOOLEAN
    /\ dbIn = NoDbIn
    /\ dbOut = NoDbOut
    /\ Idle

\* between the calls the Store may come to hand out its rows the other way
\* round (no ORDER BY in the query)
Reorder ==
    /\ scOut.done
    /\ ~scPrev.done
    /\ rowOrder' = ~rowOrder
    /\ UNCHANGED << serverVars, store, scIn, scOut, scPrev, dbIn, dbOut, otherVars >>

\* the second call
ScAgain ==
    /\ scOut.done
    /\ ~scPrev.done
    /\ \E fault \in BOOLEAN :
          scOut' = Called(score_candidates(scIn.candidates, scIn.constraints,
                                           scIn.exclude, store, fault))
    /\ scPrev' = scOut
    /\ UNCHANGED << serverVars, store, scIn, rowOrder, dbIn, dbOut, otherVars >>

RpNext == ScCall \/ Reorder \/ ScAgain

RepeatSpec == RpInit /\ [][RpNext]_vars

-----------------------------------------------------------------------------
(* DbSpec: fetch_game_cards, get_game_profile and the two candidate        *)
(* generators called directly on a connected DBManager.                    *)

MaxIds == 3

\* identifiers handed to the methods; 4 names no row of any table
DbIds == Gids \cup {4}

DbCons ==
    { ConsEmpty, ConsNull, ConsDict({"min_votes"}, [f \in ConsFields |-> OptInt(0)]),
      ConsDict({"min_votes", "limit_candidates"},
               [f \in ConsFields |-> IF f = "limit_candidates" THEN OptInt(1) ELSE OptInt(0)]) }

DbStores == ScStores \cup ServerStores

DbInput(fn, ids, constraints) == [fn |-> fn, ids |-> ids, constraints |-> constraints]

DbInputs ==
    { DbInput("fetch_game_cards", ids, ConsEmpty) : ids \in SeqsUpTo(DbIds, MaxIds) }
    \cup { DbInput("get_game_profile", << g >>, ConsEmpty) : g \in DbIds }
    \cup { DbInput(fn, ids, c) : fn \in { "candidate_by_categories", "candidate_by_designers" },
                                 ids \in SeqsUpTo(Cats, MaxIds - 1), c \in DbCons }

DbInit ==
    /\ DirectInit
    /\ store \in DbStores
    /\ scIn = [candidates |-> << >>, constraints |-> ConsEmpty, exclude |-> << >>]
    /\ scOut = NoScOut
    /\ scPrev = NoScOut
    /\ rowOrder \in BOOLEAN
    /\ dbIn \in DbInputs
    /\ dbOut = NoDbOut
    /\ Idle

DbFetchCards ==
    /\ dbIn.fn = "fetch_game_cards"
    /\ ~dbOut.done
    /\ \E fault \in BOOLEAN : dbOut' = fetch_game_cards(dbIn.ids, store, fault)
    /\ UNCHANGED << serverVars, store, scIn, scOut, scPrev, rowOrder, dbIn, otherVars >>

\* db.get_game_profile(g_id)
DbGetProfile ==
    /\ dbIn.fn = "get_game_profile"
    /\ ~dbOut.done
    /\ \E fault \in BOOLEAN :
          dbOut' = DbResult(ViaStore(get_game_profile(dbIn.ids[1], store), fault),
                            << >>, 1, fault)
    /\ UNCHANGED << serverVars, store, scIn, scOut, scPrev, rowOrder, dbIn, otherVars >>

\* db.candidate_by_categories(c_ids, constraints)
DbCandCats ==
    /\ dbIn.fn = "candidate_by_categories"
    /\ ~dbOut.done
    /\ \E fault \in BOOLEAN :
          dbOut' = candidate_by_categories(dbIn.ids, dbIn.constraints, store, fault)
    /\ UNCHANGED << serverVars, store, scIn, scOut, scPrev, rowOrder, dbIn, otherVars >>

\* db.candidate_by_designers(des_ids, constraints)
DbCandDes ==
    /\ dbIn.fn = "candidate_by_designers"
    /\ ~dbOut.done
    /\ \E fault \in BOOLEAN :
          dbOut' = candidate_by_designers(dbIn.ids, dbIn.constraints, store, fault)
    /\ UNCHANGED << serverVars, store, scIn, scOut, scPrev, rowOrder, dbIn, otherVars >>

DbNext == DbFetchCards \/ DbGetProfile \/ DbCandCats \/ DbCandDes

DbSpec == DbInit /\ [][DbNext]_vars

-----------------------------------------------------------------------------
(* ClauseSpec: DBManager._constraint_clauses applied to bounded            *)
(* constraints, and the WHERE clause it builds applied to a game row.      *)

\* the optional filters, in the order the code tests them
FilterFields == << "players", "minplayers", "maxplayers", "maxplaytime", "minplaytime" >>

\* `if c.<f> is not None: where.append(...); params[f] = c.<f>`
ClauseFor(c, f) == IF c[f].none THEN << >> ELSE << f >>

\* a builder that tests `if c.<f>:` and so drops a filter whose value is 0
RECURSIVE constraint_where_truthy(_, _)
constraint_where_truthy(c, i) ==
    IF i > Len(FilterFields) THEN << "min_votes" >>
    ELSE (IF c[FilterFields[i]].none \/ c[FilterFields[i]].n = 0 THEN << >>
          ELSE << FilterFields[i] >>) \o constraint_where_truthy(c, i + 1)

\* the clauses appended after "1=1", from the i-th optional filter on;
\* the vote threshold is appended whatever c.min_votes is
RECURSIVE constraint_where(_, _)
constraint_where(c, i) ==
    IF i > Len(FilterFields) THEN << "min_votes" >>
    ELSE ClauseFor(c, FilterFields[i]) \o constraint_where(c, i + 1)

\* _constraint_clauses(c): the clauses joined by AND, and params
constraint_clauses(c) ==
    [where |-> << "1=1" >> \o constraint_where(c, 1),
     keys  |-> SeqToSet(constraint_where(c, 1)),
     val   |-> [f \in ConsFields |-> IF f \in SeqToSet(constraint_where(c, 1))
                                     THEN c[f] ELSE OptNone]]

\* a WHERE clause that lets a NULL column pass a bound filter
ClauseHoldsNullPasses(clause, val, g) ==
    CASE clause = "1=1"         -> TRUE
      [] clause = "players"     -> /\ "minplayers" \in g.nulls \/ g.minplayers <= val["players"].n
                                   /\ "maxplayers" \in g.nulls \/ g.maxplayers >= val["players"].n
      [] clause = "minplayers"  -> "maxplayers" \in g.nulls \/ g.maxplayers >= val["minplayers"].n
      [] clause = "maxplayers"  -> "minplayers" \in g.nulls \/ g.minplayers <= val["maxplayers"].n
      [] clause = "maxplaytime" -> "maxplaytime" \in g.nulls
                                   \/ g.maxplaytime <= val["maxplaytime"].n
      [] clause = "minplaytime" -> "minplaytime" \in g.nulls
                                   \/ g.minplaytime >= val["minplaytime"].n
      [] clause = "min_votes"   -> g.votesNull
                                   \/ (~val["min_votes"].none /\ g.numvotes >= val["min_votes"].n)

\* `g.<col> <= n` and `g.<col> >= n`: not true when the column is NULL
AtMost(g, col, n)  == col \notin g.nulls /\ g[col] <= n
AtLeast(g, col, n) == col \notin g.nulls /\ g[col] >= n

\* the SQL text of each clause, read on a row g with the parameters val
ClauseHolds(clause, val, g) ==
    CASE clause = "1=1"         -> TRUE
      [] clause = "players"     -> AtMost(g, "minplayers", val["players"].n)
                                   /\ AtLeast(g, "maxplayers", val["players"].n)
      [] clause = "minplayers"  -> AtLeast(g, "maxplayers", val["minplayers"].n)
      [] clause = "maxplayers"  -> AtMost(g, "minplayers", val["maxplayers"].n)
      [] clause = "maxplaytime" -> AtMost(g, "maxplaytime", val["maxplaytime"].n)
      [] clause = "minplaytime" -> AtLeast(g, "minplaytime", val["minplaytime"].n)
      [] clause = "min_votes"   -> g.votesNull
                                   \/ (~val["min_votes"].none /\ g.numvotes >= val["min_votes"].n)

ClauseKeys == SUBSET { "players", "minplayers", "maxplayers", "maxplaytime", "minplaytime",
                       "min_votes", "limit_final" }

ClauseVals ==
    { [f \in ConsFields |-> CASE f \in { "maxplaytime", "minplaytime" } -> OptInt(60)
                              [] f = "min_votes" -> OptInt(100)
                              [] OTHER -> OptInt(2)],
      [f \in ConsFields |-> CASE f = "players" -> OptInt(0)
                              [] f = "minplayers" -> OptNone
                              [] f = "min_votes" -> OptInt(0)
                              [] OTHER -> OptInt(3)] }

ClauseGames ==
    { GameRow(2, 4, 30, 60, FALSE, 999), GameRow(0, 2, 60, 90, FALSE, 99),
      GameRow(3, 3, 10, 20, TRUE, 0), GameRow(1, 1, 60, 60, FALSE, 0),
      NullIn(GameRow(2, 4, 30, 60, TRUE, 0), { "maxplayers" }),
      NullIn(GameRow(0, 2, 60, 90, FALSE, 99), { "minplayers", "minplaytime" }) }

ClInit ==
    /\ DirectInit
    /\ store \in { [g \in Gids |-> NoRow] }
    /\ scIn = [candidates |-> << >>, constraints |-> ConsEmpty, exclude |-> << >>]
    /\ scOut = NoScOut
    /\ scPrev = NoScOut
    /\ rowOrder = FALSE
    /\ dbIn = NoDbIn
    /\ dbOut = NoDbOut
    /\ clIn \in [constraints : { ConsDict(k, v) : k \in ClauseKeys, v \in ClauseVals },
                 game : ClauseGames]
    /\ clOut = NoClOut
    /\ agent = NoAgent

\* where, params = self._constraint_clauses(Constraints(**constraints)), and
\* the clauses of `where` that are true of the row
ClBuilt(built, g) ==
    [done |-> TRUE, where |-> built.where, keys |-> built.keys, val |-> built.val,
     holds |-> { cl \in SeqToSet(built.where) : ClauseHolds(cl, built.val, g) }]

ClCall ==
    /\ ~clOut.done
    /\ clOut' = ClBuilt(constraint_clauses(Constraints(clIn.constraints)), clIn.game)
    /\ UNCHANGED << serverVars, store, scIn, scOut, scPrev, rowOrder, dbIn, dbOut, clIn, agent >>

ClNext == ClCall

ClauseSpec == ClInit /\ [][ClNext]_vars

-----------------------------------------------------------------------------
(* AgentSpec: agent_client_ollama.py, main().  The language model and the  *)
(* tool server are the environment: the model answers a chat request with  *)
(* or without tool_calls and with or without content, the server answers   *)
(* a tools/call with a result or with an error.                            *)

MaxTurns     == 2     \* user turns followed
MaxToolSteps == 20    \* for step in range(20)

AgInit ==
    /\ env \in Envs
    /\ pc = "client"
    /\ exitCode = -1
    /\ dbOpen = FALSE
    /\ tools = << >>
    /\ nRead = 0
    /\ line = NoLine
    /\ id_ = None
    /\ method = None
    /\ params = EmptyObject
    /\ pending = {}
    /\ answered = 0
    /\ nOut = 0
    /\ resp = NoResp
    /\ exc = NoExc
    /\ prevCode = "none"
    /\ listed = NoListed
    /\ store \in { [g \in Gids |-> NoRow] }
    /\ scIn = [candidates |-> << >>, constraints |-> ConsEmpty, exclude |-> << >>]
    /\ scOut = NoScOut
    /\ scPrev = NoScOut
    /\ rowOrder = FALSE
    /\ dbIn = NoDbIn
    /\ dbOut = NoDbOut
    /\ clIn = NoClIn
    /\ clOut = NoClOut
    /\ agent = [NoAgent EXCEPT !.pc = "start"]

AgUnchanged == UNCHANGED << serverVars, store, scIn, scOut, scPrev, rowOrder, dbIn, dbOut,
                            clIn, clOut >>

\* what rpc() reads back: a result, an error response, or no line at all
RpcOutcomes == { "result", "error", "none" }

\* rpc(), lines 70-71: the request with id `i` is written to the server
Send(a, i) ==
    [a EXCEPT !.sent = a.sent \cup { i },
              !.resent = a.resent \cup (IF i \in a.sent THEN { i } ELSE {})]

\* a main() that returns without the finally clause
LeaveNoKill(a, code, why) == [a EXCEPT !.pc = "exited", !.exit = code, !.cause = why]

\* main() is left from inside the try block: `finally: proc.kill()`
Leave(a, code, why) ==
    [a EXCEPT !.pc = "exited", !.exit = code, !.cause = why, !.proc = "killed"]

\* lines 189-192: the credentials check, before the server is started
AgNoCreds ==
    /\ agent.pc = "start"
    /\ ~AllCreds(env)
    /\ agent' = [agent EXCEPT !.pc = "exited", !.exit = 2, !.cause = "nocreds"]
    /\ AgUnchanged

\* proc = start_server()
Started(a) == [a EXCEPT !.proc = "running"]

\* rpc(proc, 1, "tools/list", {}) and what follows it up to the prompt
Listed(a, outcome) ==
    CASE outcome = "result" -> [a EXCEPT !.pc = "prompt"]
      [] outcome = "error"  -> Leave(a, 1, "listerror")
      [] OTHER              -> Leave(a, 1, "noresponse")

\* lines 194-207: the server is started and its tools are listed; rpc raises
\* when the server answers with an error or not at all
AgListTools ==
    /\ agent.pc = "start"
    /\ AllCreds(env)
    /\ \E outcome \in RpcOutcomes : agent' = Listed(Send(Started(agent), 1), outcome)
    /\ AgUnchanged

\* lines 209-212: input() interrupted by Ctrl+C
AgInterrupt ==
    /\ agent.pc = "prompt"
    /\ agent' = Leave(agent, 0, "interrupt")
    /\ AgUnchanged

\* lines 210-215: a query is read; an empty one is skipped; the end of the
\* input raises EOFError
AgInput ==
    /\ agent.pc = "prompt"
    /\ agent.turns < MaxTurns
    /\ \E q \in { "empty", "query", "eof" } :
          agent' = CASE q = "empty" -> agent
                     [] q = "eof"   -> Leave(agent, 1, "eof")
                     [] OTHER       -> [agent EXCEPT !.pc = "chat", !.step = 0, !.calls = 0,
                                                     !.fed = 0, !.answered = FALSE,
                                                     !.tool_calls = FALSE, !.content = FALSE]
    /\ AgUnchanged

\* `for step in range(20)` once the body for `step` is over
NextStep(a) ==
    IF a.step + 1 < MaxToolSteps THEN [a EXCEPT !.pc = "chat", !.step = a.step + 1]
    ELSE [a EXCEPT !.pc = "prompt", !.step = a.step + 1, !.turns = a.turns + 1]

\* line 218: msg = chat(...); the request may fail
AgChat ==
    /\ agent.pc = "chat"
    /\ \E failed \in BOOLEAN, tc \in BOOLEAN, content \in BOOLEAN :
          agent' = IF failed THEN Leave(agent, 1, "chat")
                   ELSE [agent EXCEPT !.pc = "reply", !.tool_calls = tc, !.content = content]
    /\ AgUnchanged

\* lines 249-254: no tool call, the reply is final and ends the turn; it is
\* printed if it has content
AgFinal ==
    /\ agent.pc = "reply"
    /\ ~agent.tool_calls
    /\ agent' = [agent EXCEPT !.pc = "prompt", !.answered = agent.content,
                              !.turns = agent.turns + 1]
    /\ AgUnchanged

\* a client that hands the error to the model as the tool's result
ToolFailedFedBack(a) == NextStep([a EXCEPT !.toolError = TRUE, !.fed = a.fed + 1])

\* rpc(), lines 76-77: an error response raises RuntimeError; nothing in
\* main() catches it
ToolFailed(a) == Leave([a EXCEPT !.toolError = TRUE], 1, "toolerror")

\* lines 247-248: the result is appended to messages as a tool message
ToolServed(a) == NextStep([a EXCEPT !.fed = a.fed + 1])

\* the id of the tools/call sent at `step`
CallId(step) == 100 + step

\* line 242 and what follows it
ToolCalled(a, outcome) ==
    CASE outcome = "result" -> ToolServed(a)
      [] outcome = "error"  -> ToolFailed(a)
      [] OTHER              -> Leave(a, 1, "noresponse")

\* lines 223-248: the first tool call of the reply is sent to the server
AgTool ==
    /\ agent.pc = "reply"
    /\ agent.tool_calls
    /\ \E outcome \in RpcOutcomes :
          agent' = ToolCalled(Send([agent EXCEPT !.calls = agent.calls + 1],
                                   CallId(agent.step)), outcome)
    /\ AgUnchanged

AgNext ==
    \/ AgNoCreds
    \/ AgListTools
    \/ AgInterrupt
    \/ AgInput
    \/ AgChat
    \/ AgFinal
    \/ AgTool

AgentSpec == AgInit /\ [][AgNext]_vars

-----------------------------------------------------------------------------
(* Properties of the server loop (Spec)                                    *)

\* the line last read has been dealt with: the loop is back at the top,
\* has ended, or the process has died on it
Settled == nRead > 0 /\ pc \in { "ready", "eof", "crashed" }

\* the line last read is a JSON object
IsRequest(l) == l.raw = "<json>" /\ l.val.obj

\* the raw texts that are neither blank nor JSON, with the text left of
\* each after the surrounding white space is taken off
BadTexts == { "{bad", "  {bad  ", "tools/list" }
Trimmed(raw) == IF raw = "  {bad  " THEN "{bad" ELSE raw

\* C1: every request line - blank lines apart - receives exactly one
\* response line, whatever its content, valid JSON of any shape included.
C1_OneResponsePerLine ==
    (Settled /\ line.raw \in BadTexts \cup { "<json>" }) => answered = 1

\* C2: requests are served strictly one after the other: at most one line
\* is without its response at any time, it is the line read last, and a
\* line is only read once every earlier line has been dealt with.
C2_Sequential ==
    /\ Cardinality(pending) <= 1
    /\ pending \subseteq { nRead }
    /\ (pc = "ready" => pending = {})
    /\ (pc # "exited" => nOut <= nRead)
    /\ (pc \in { "parsing", "dispatching" } => pending = { nRead } /\ answered = 0)

C2_Witness ==
    /\ nRead = 2
    /\ pc = "dispatching"
    /\ pending = { 2 }
    /\ nOut = 1
    /\ prevCode = "result"

\* the raw texts that are empty or white space only
BlankTexts == { "", "   " }

\* C36: reading a blank or white-space-only line writes nothing and leaves
\* the loop at its top, still running; and every response the loop writes
\* is written for the non-blank line read last, with that request's id.
C36_BlankSkipped ==
    [][ /\ (nRead' = nRead + 1 /\ line'.raw \in BlankTexts)
           => /\ pc' = "ready"
              /\ exitCode' = exitCode
              /\ nOut' = nOut
              /\ resp' = resp
              /\ pending' = {}
        /\ (nOut' = nOut + 1 /\ pc # "start")
           => /\ line.raw \notin BlankTexts
              /\ line' = line
              /\ pending = { nRead }
              /\ pending' = {}
              /\ (IsRequest(line) => resp'.id = line.val.id) ]_vars

\* a blank line, then a request that is answered with its own id
C36_Witness ==
    /\ pc = "ready"
    /\ nRead = 2
    /\ nOut = 1
    /\ answered = 1
    /\ IsRequest(line)
    /\ line.val.id = "7"
    /\ method = "tools/list"
    /\ resp.kind = "result"
    /\ resp.id = "7"

\* the tool name a tools/call carries: the name member of an object-valued
\* params, None where params or the member is missing
NameOf(req) == IF req.params.shape = "object" THEN req.params.name ELSE None

\* a request for something that is not there: a method other than the two
\* supported ones, or a tools/call naming no registered tool
AsksUnknown(req) ==
    \/ req.method \notin { "tools/list", "tools/call" }
    \/ /\ req.method = "tools/call"
       /\ req.params.shape # "nonobject"
       /\ NameOf(req) \notin ToolNames(Registry)

\* C3: an unsupported method, or a tools/call whose name is no registered
\* tool - whatever value name has, a missing one included - is answered by
\* exactly one error response with code -32601 and the request's id, and
\* the request after it is accepted and answered.
C3_UnknownIsNotFound ==
    /\ (Settled /\ IsRequest(line) /\ AsksUnknown(line.val))
          => /\ pc # "crashed"
             /\ answered = 1
             /\ resp.kind = "error"
             /\ resp.code = NotFoundCode
             /\ resp.id = line.val.id
    /\ (Settled /\ prevCode = "notfound" /\ IsRequest(line)
            /\ line.val.method = "tools/list")
          => answered = 1 /\ resp.kind = "result"

\* C4: a non-blank line that is not JSON is answered by exactly one error
\* response with code -32700 and a null id, whose data echoes the line as
\* it was handed to the parser; the server then serves the next line.
C4_ParseError ==
    /\ (Settled /\ line.raw \in BadTexts)
          => /\ pc # "crashed"
             /\ answered = 1
             /\ resp = [kind |-> "error", id |-> None, code |-> -32700,
                        message |-> "Parse error",
                        data |-> [key |-> "line", value |-> Trimmed(line.raw)],
                        result |-> NoneValue]
    /\ (Settled /\ prevCode = "parse" /\ IsRequest(line)
            /\ line.val.method = "tools/list")
          => answered = 1 /\ resp.kind = "result" /\ resp.id = line.val.id

C4_Witness ==
    /\ pc = "ready"
    /\ nRead = 3
    /\ prevCode = "parse"
    /\ IsRequest(line)
    /\ line.val.method = "tools/list"
    /\ resp.kind = "result"
    /\ nOut = 2

\* the exception classes the handler of the request loop names
ToolErrors == { "ValueError", "KeyError", "TypeError" }

\* C5 as stated: when serving a request raises one of the recoverable
\* errors, the one response has code -32001, the request's id, and a
\* message that carries the text of the error.
C5_MessageCarriesText ==
    (nRead > 0 /\ exc.type \in ToolErrors)
       => /\ answered = 1
          /\ resp.code = ToolErrorCode
          /\ resp.id = line.val.id
          /\ resp.message = exc.text

\* C5, amended: when serving a request raises one of the recoverable
\* errors, exactly one response is written; it has code -32001, the
\* request's id, the fixed message "Tool error" and the text of the error
\* under data.error; the loop goes on to serve the next request.
C5_ToolError ==
    /\ (nRead > 0 /\ exc.type \in ToolErrors)
          => /\ pc \in { "ready", "eof" }
             /\ answered = 1
             /\ resp = [kind |-> "error", id |-> line.val.id, code |-> -32001,
                        message |-> "Tool error",
                        data |-> [key |-> "error", value |-> exc.text],
                        result |-> NoneValue]
    /\ (Settled /\ prevCode = "toolerror" /\ IsRequest(line)
            /\ line.val.method = "tools/list")
          => answered = 1 /\ resp.kind = "result" /\ resp.id = line.val.id

C5_Witness ==
    /\ pc = "ready"
    /\ nRead = 2
    /\ exc.type = "KeyError"
    /\ resp.code = ToolErrorCode
    /\ resp.id = "7"
    /\ resp.data.value = exc.text
    /\ prevCode = "result"

\* C6: an exception of any other class raised while a request is served
\* leaves the loop: no response is written for that request, the process
\* ends with a failure status and no later line is read.
C6_Propagates ==
    (nRead > 0 /\ exc.type \notin ToolErrors \cup { "none", "JSONDecodeError" })
       => /\ pc = "crashed"
          /\ exitCode = 1
          /\ answered = 0
          /\ pending = { nRead }
          /\ ~ENABLED Next

C6_Witness ==
    /\ pc = "crashed"
    /\ nRead = 2
    /\ nOut = 1
    /\ exc.type = "psycopg2.Error"
    /\ method = "tools/call"

\* one of the four required credentials is absent or empty
CredsMissing(e) ==
    \E k \in { "host", "database", "user", "password" } : e[k] \in { "unset", "empty" }

\* C7: with a required credential missing or empty, start-up writes exactly
\* one error response (code -32000, null id), exits with status 2, and
\* neither opens the Store nor reads a line.
C7_MissingCredentials ==
    (CredsMissing(env) /\ pc # "start")
       => /\ pc = "exited"
          /\ exitCode = 2
          /\ nOut = 1
          /\ resp.kind = "error" /\ resp.code = StartupErrorCode /\ resp.id = None
          /\ ~dbOpen
          /\ nRead = 0

\* the listing the registry of main() gives, written out
ListedNames ==
    << "get_games_by_name", "get_game_profile", "search_categories", "search_designers",
       "candidate_by_categories", "candidate_by_designers", "score_candidates",
       "fetch_game_cards" >>

\* C8: a tools/list answer has one entry per registered tool, in the order
\* of registration, each with exactly name, description and inputSchema
\* (never the callable); every listing of a run is the same, and the
\* registry is what start-up built for as long as the server runs.
C8_Listing ==
    /\ (resp.kind = "result" /\ resp.result.ty = "tools")
          => /\ [i \in DOMAIN resp.result.tools |-> resp.result.tools[i].name] = ListedNames
             /\ \A i \in DOMAIN resp.result.tools :
                   /\ DOMAIN resp.result.tools[i] = { "name", "description", "inputSchema" }
                   /\ resp.result.tools[i].description = Registry[i].description
                   /\ resp.result.tools[i].inputSchema = Registry[i].inputSchema
             /\ listed.seen
             /\ resp.result.tools = listed.value
    /\ (pc \in { "ready", "parsing", "dispatching", "eof" } => tools = Registry)

C8_Witness ==
    /\ pc = "ready"
    /\ nRead = 3
    /\ nOut = 3
    /\ prevCode = "toolerror"
    /\ method = "tools/list"
    /\ resp.result.ty = "tools"
    /\ listed.seen

\* the tools the spec requires of every registry
RequiredTools ==
    { "get_games_by_name", "search_categories", "search_designers", "get_game_profile",
      "candidate_by_categories", "candidate_by_designers", "score_candidates",
      "fetch_game_cards" }

\* entry e of a listing declares an input schema: its properties, and
\* required fields that are among them
DeclaresSchema(e) ==
    /\ "inputSchema" \in DOMAIN e
    /\ DOMAIN e.inputSchema = { "properties", "required" }
    /\ SeqToSet(e.inputSchema.required) \subseteq SeqToSet(e.inputSchema.properties)

\* C25: every tools/list answer names each of the eight required tools, with
\* an input schema declared for it.
C25_RequiredTools ==
    (resp.kind = "result" /\ resp.result.ty = "tools") =>
       \A n \in RequiredTools :
          \E i \in DOMAIN resp.result.tools :
             resp.result.tools[i].name = n /\ DeclaresSchema(resp.result.tools[i])

C25_Witness ==
    /\ pc = "ready"
    /\ nRead = 1
    /\ nOut = 1
    /\ resp.kind = "result"
    /\ resp.result.ty = "tools"
    /\ Len(resp.result.tools) = 8
    /\ \E i \in DOMAIN resp.result.tools :
          /\ resp.result.tools[i].name = "search_designers"
          /\ resp.result.tools[i].inputSchema.required = << >>
          /\ Len(resp.result.tools[i].inputSchema.properties) = 2

\* C9: the response to a request is a function of the request and of the
\* Store alone: it is the response a server that has just started gives to
\* the same line, whatever lines were served before it.
C9_Stateless ==
    (Settled /\ IsRequest(line) /\ answered = 1)
       => \E fault \in BOOLEAN :
             /\ Handle(Registry, line.val.id, line.val.method,
                       ParamsOrEmpty(line.val.params), store, fault).kind = "respond"
             /\ Handle(Registry, line.val.id, line.val.method,
                       ParamsOrEmpty(line.val.params), store, fault).resp = resp

C9_Witness ==
    /\ pc = "ready"
    /\ nRead = 3
    /\ nOut = 3
    /\ prevCode = "toolerror"
    /\ line.val.id = None
    /\ method = "tools/call"
    /\ resp.kind = "result"
    /\ resp.result.ids # << >>

\* C28: the response to a line that parsed as a request - a result, a
\* -32601 or a -32001 - carries the id of that request, null if it has
\* none; the parse error and the start-up error carry null.
C28_EchoesId ==
    /\ (Settled /\ IsRequest(line) /\ answered = 1)
          => /\ resp.id = line.val.id
             /\ resp.kind = "result" \/ (resp.kind = "error" /\ resp.code \in { -32601, -32001 })
    /\ (resp.kind = "error" /\ resp.code \in { -32700, -32000 }) => resp.id = None

C28_Witness ==
    /\ pc = "ready"
    /\ nRead = 2
    /\ answered = 1
    /\ IsRequest(line)
    /\ line.val.id = "7"
    /\ line.val.method = "resources/list"
    /\ resp.kind = "error"
    /\ resp.code = -32601
    /\ resp.id = "7"
    /\ prevCode = "result"

\* a tools/call of a registered tool whose arguments leave out a field that
\* the tool's inputSchema lists as required
OmitsRequired(req) ==
    /\ req.method = "tools/call"
    /\ req.params.shape = "object"
    /\ req.params.name \in ToolNames(Registry)
    /\ req.params.args.shape \in { "dict", "missing" }
    /\ \E f \in SeqToSet(ToolAt(Registry, req.params.name).inputSchema.required) :
          f \notin req.params.args.keys

\* C27: a tools/call that omits a field its tool's schema requires is
\* answered with a -32001 tool error carrying the request's id, and the
\* loop goes on; the tool is not run with a default in the field's place.
C27_MissingRequired ==
    (Settled /\ IsRequest(line) /\ OmitsRequired(line.val)) =>
       /\ pc \in { "ready", "eof" }
       /\ answered = 1
       /\ resp.kind = "error"
       /\ resp.code = -32001
       /\ resp.id = line.val.id

-----------------------------------------------------------------------------
(* Properties of score_candidates (ScorerSpec)                             *)

\* the ids of exclude_g_ids, as integers
ExcludedIds == { scIn.exclude[i].n : i \in DOMAIN scIn.exclude }

\* C10: no id of the exclusion list is in the result, whether the
\* candidate list names it as a bare integer, as a structured entry, or
\* more than once.
C10_Exclusion ==
    (scOut.done /\ scOut.ok)
       => \A i \in DOMAIN scOut.ids : scOut.ids[i] \notin ExcludedIds

C10_Witness ==
    /\ scOut.done
    /\ scOut.ok
    /\ scOut.ids # << >>
    /\ \E i, j, k \in DOMAIN scIn.candidates :
          /\ i # j /\ j # k /\ i # k
          /\ scIn.candidates[i].kind = "int"
          /\ scIn.candidates[j].kind = "dict"
          /\ scIn.candidates[j].hasG
          /\ scIn.candidates[i].g.n \in ExcludedIds
          /\ scIn.candidates[j].g.n = scIn.candidates[i].g.n

\* the final-result cap in force: the value under limit_final, 8 without one
LimitFinal ==
    IF "limit_final" \in scIn.constraints.keys
    THEN scIn.constraints.val["limit_final"]
    ELSE [none |-> FALSE, n |-> 8]

\* C11: the list score_candidates returns is never longer than
\* constraints.limit_final, whatever integer the caller passes as the cap.
C11_Cap ==
    (scOut.done /\ scOut.ok /\ ~LimitFinal.none) => Len(scOut.ids) <= LimitFinal.n

\* the arguments get as far as the merge: constraints is an object and
\* every element of exclude_g_ids converts to an integer
Mergeable ==
    /\ scIn.constraints.shape = "dict"
    /\ \A i \in DOMAIN scIn.exclude : scIn.exclude[i].ty \in { "int", "numstr" }

\* a candidate entry that names an identifier of the exclusion list
NamesExcluded(it) ==
    \/ it.kind = "int" /\ it.g.n \in ExcludedIds
    \/ it.kind = "dict" /\ it.hasG /\ it.g.ty \in { "int", "numstr" } /\ it.g.n \in ExcludedIds

\* C12: when nothing is left to score - the candidate list is empty, or
\* every entry of it is excluded - score_candidates returns the empty list
\* and raises nothing, whether or not the Store could have answered.
C12_EmptyMerged ==
    (scOut.done /\ Mergeable
        /\ \A i \in DOMAIN scIn.candidates : NamesExcluded(scIn.candidates[i]))
       => /\ scOut.ok
          /\ scOut.ids = << >>
          /\ scOut.exc = [type |-> "none", text |-> ""]
          /\ scOut.queries = 0

C12_Witness ==
    /\ scOut.done
    /\ scOut.ok
    /\ scOut.ids = << >>
    /\ Len(scIn.candidates) = 2
    /\ scIn.exclude # << >>
    /\ \A i \in DOMAIN scIn.candidates : NamesExcluded(scIn.candidates[i])
    /\ \E i \in DOMAIN scIn.candidates : scIn.candidates[i].kind = "dict"

\* the merge loop ran to its end
MergeDone == scOut.done /\ (scOut.ok \/ scOut.queries = 1)

\* the overlap values the structured entries for identifier g carry
CatSeen(g) ==
    { scIn.candidates[i].cat : i \in { j \in DOMAIN scIn.candidates :
          /\ scIn.candidates[j].kind = "dict"
          /\ scIn.candidates[j].g.n = g
          /\ scIn.candidates[j].hasCat } }
DesSeen(g) ==
    { scIn.candidates[i].des : i \in { j \in DOMAIN scIn.candidates :
          /\ scIn.candidates[j].kind = "dict"
          /\ scIn.candidates[j].g.n = g
          /\ scIn.candidates[j].hasDes } }

\* v is the largest of the values S and the zero a dimension starts from
IsMaxOf(v, S) == v \in S \cup {0} /\ \A w \in S \cup {0} : w <= v

\* C13: an identifier that occurs several times in the candidate list has
\* one merged row; its category overlap is the maximum of the category
\* overlaps seen for it and its designer overlap the maximum of the designer
\* overlaps seen for it, each on its own and never added up.
C13_MergeMax ==
    MergeDone =>
       /\ \A k, l \in DOMAIN scOut.feats :
             scOut.feats[k].gid = scOut.feats[l].gid => k = l
       /\ \A k \in DOMAIN scOut.feats :
             /\ IsMaxOf(scOut.feats[k].cat, CatSeen(scOut.feats[k].gid))
             /\ IsMaxOf(scOut.feats[k].des, DesSeen(scOut.feats[k].gid))

C13_Witness ==
    /\ scOut.done
    /\ scOut.ok
    /\ \E k \in DOMAIN scOut.feats :
          /\ Cardinality(CatSeen(scOut.feats[k].gid)) = 2
          /\ Cardinality(DesSeen(scOut.feats[k].gid)) = 2
          /\ scOut.feats[k].cat = 1
          /\ scOut.feats[k].des = 2
          /\ scOut.feats[k].gid \in { scOut.ids[i] : i \in DOMAIN scOut.ids }

\* the sequence s without its j-th element
Without(s, j) == SubSeq(s, 1, j - 1) \o SubSeq(s, j + 1, Len(s))

\* C14: a candidate list in which an entry is repeated with the same
\* overlaps gives the merged rows, and the result, of the list without the
\* repetition.
C14_Idempotent ==
    scOut.done =>
       \A i, j \in DOMAIN scIn.candidates :
          (i < j /\ scIn.candidates[i] = scIn.candidates[j])
             => \E fault \in BOOLEAN :
                   Called(score_candidates(Without(scIn.candidates, j), scIn.constraints,
                                           scIn.exclude, store, fault)) = scOut

C14_Witness ==
    /\ scOut.done
    /\ scOut.ok
    /\ Len(scOut.ids) = 2
    /\ \E i, j \in DOMAIN scIn.candidates :
          /\ i < j
          /\ scIn.candidates[i] = scIn.candidates[j]
          /\ scIn.candidates[i].kind = "dict"
          /\ scIn.candidates[i].hasCat /\ scIn.candidates[i].cat > 0
          /\ scIn.candidates[i].g.n = scOut.ids[1]

\* the stats of identifier g as the Store holds them: a missing row and a
\* NULL column count as 0
AvgOf(g)   == IF g \in DOMAIN store /\ store[g].present /\ ~store[g].avgNull
              THEN store[g].avg ELSE 0
VotesOf(g) == IF g \in DOMAIN store /\ store[g].present /\ ~store[g].votesNull
              THEN store[g].votes ELSE 0

\* log10(v + 1) for the vote counts in use
Log10Of(v) == CASE v = 0 -> 0 [] v = 9 -> 1 [] v = 99 -> 2 [] v = 999 -> 3

\* the merged row of identifier g
FeatOf(g) == scOut.feats[CHOOSE k \in DOMAIN scOut.feats : scOut.feats[k].gid = g]

\* 0.55 * cat + 0.45 * des + avg + 0.15 * log10(votes + 1), in hundredths
ScoreOf(g) == 55 * FeatOf(g).cat + 45 * FeatOf(g).des + AvgOf(g) + 15 * Log10Of(VotesOf(g))

Returned_ids == { scOut.ids[i] : i \in DOMAIN scOut.ids }

\* C16: the identifiers come back in non-increasing order of
\* 0.55 * cat + 0.45 * des + avgscore + 0.15 * log10(numvotes + 1), and the
\* list is a prefix of the full ranking: no merged identifier that was
\* left out scores higher than one that was returned.
C16_Ranked ==
    (scOut.done /\ scOut.ok) =>
       /\ \A i, j \in DOMAIN scOut.ids :
             i < j => ScoreOf(scOut.ids[i]) >= ScoreOf(scOut.ids[j])
       /\ \A k \in DOMAIN scOut.feats :
             scOut.feats[k].gid \notin Returned_ids
                => \A i \in DOMAIN scOut.ids :
                      ScoreOf(scOut.ids[i]) >= ScoreOf(scOut.feats[k].gid)
       /\ Returned_ids \subseteq { scOut.feats[k].gid : k \in DOMAIN scOut.feats }

C16_Witness ==
    /\ scOut.done
    /\ scOut.ok
    /\ Len(scOut.ids) = 3
    /\ Len(scOut.feats) = 3
    /\ scOut.ids[1] = scOut.feats[3].gid
    /\ scOut.ids[3] = scOut.feats[1].gid
    /\ ScoreOf(scOut.ids[1]) > ScoreOf(scOut.ids[2])
    /\ ScoreOf(scOut.ids[2]) > ScoreOf(scOut.ids[3])
    /\ FeatOf(scOut.ids[3]).des > 0

\* the positions of the candidate list that hold g as a bare integer
BareAt(g) ==
    { i \in DOMAIN scIn.candidates :
         scIn.candidates[i].kind = "int" /\ scIn.candidates[i].g.n = g }

\* C17: an identifier that arrives as a bare integer and is not excluded
\* gets a merged row like any other; the row has overlap 0 in a dimension
\* unless a structured entry for the same identifier supplies a value, and
\* then it has exactly the value the structured entries give; with no cap
\* in the way the identifier is in the result.
C17_BareIds ==
    MergeDone =>
       \A i \in DOMAIN scIn.candidates :
          (scIn.candidates[i].kind = "int" /\ scIn.candidates[i].g.n \notin ExcludedIds)
             => /\ \E k \in DOMAIN scOut.feats :
                      /\ scOut.feats[k].gid = scIn.candidates[i].g.n
                      /\ IsMaxOf(scOut.feats[k].cat, CatSeen(scOut.feats[k].gid))
                      /\ IsMaxOf(scOut.feats[k].des, DesSeen(scOut.feats[k].gid))
                /\ (scOut.ok /\ (LimitFinal.none \/ LimitFinal.n >= Len(scOut.feats)))
                      => scIn.candidates[i].g.n \in Returned_ids

C17_Witness ==
    /\ scOut.done
    /\ scOut.ok
    /\ \E g \in Returned_ids :
          /\ BareAt(g) # {}
          /\ CatSeen(g) # {}
          /\ FeatOf(g).cat = 1
          /\ \E i \in BareAt(g), j \in DOMAIN scIn.candidates :
                j < i /\ scIn.candidates[j].kind = "dict" /\ scIn.candidates[j].g.n = g
    /\ \E h \in Returned_ids :
          BareAt(h) # {} /\ CatSeen(h) = {} /\ DesSeen(h) = {} /\ FeatOf(h).cat = 0

\* the candidate entries that name identifier g
NamedAt(g) ==
    { i \in DOMAIN scIn.candidates :
         /\ scIn.candidates[i].kind \in { "int", "dict" }
         /\ scIn.candidates[i].g.ty \in { "int", "numstr" }
         /\ scIn.candidates[i].g.n = g }

\* g is named, and no later than h is named for the first time
NamedFirst(g, h) ==
    \E i \in NamedAt(g) : \A j \in NamedAt(h) : i < j

\* C29: two returned identifiers with equal scores come in the order in
\* which the candidate list first names them.
C29_TieBreak ==
    (scOut.done /\ scOut.ok) =>
       \A i, j \in DOMAIN scOut.ids :
          (i < j /\ ScoreOf(scOut.ids[i]) = ScoreOf(scOut.ids[j]))
             => NamedFirst(scOut.ids[i], scOut.ids[j])

C29_Witness ==
    /\ scOut.done
    /\ scOut.ok
    /\ Len(scIn.candidates) = 3
    /\ scOut.ids = << 2, 1 >>
    /\ ScoreOf(1) = ScoreOf(2)
    /\ ScoreOf(1) > 0
    /\ NamedAt(2) = { 1, 3 }
    /\ NamedAt(1) = { 2 }

\* C30: a call sends the Store at most one request; it sends exactly one
\* when it returns a ranking of a non-empty merged set, however many
\* identifiers that set has, and none when the merged set is empty.
C30_OneRequest ==
    scOut.done =>
       /\ scOut.queries <= 1
       /\ scOut.feats = << >> => scOut.queries = 0
       /\ (scOut.ok /\ scOut.feats # << >>) => scOut.queries = 1

C30_Witness ==
    /\ scOut.done
    /\ scOut.ok
    /\ Len(scOut.feats) = 3
    /\ Len(scOut.ids) = 3
    /\ scOut.queries = 1
    /\ \E g \in Returned_ids : ~(g \in DOMAIN store /\ store[g].present)

\* the Store has no stats for g: no row, or a row with both columns NULL
NoStats(g) ==
    \/ ~(g \in DOMAIN store /\ store[g].present)
    \/ store[g].avgNull /\ store[g].votesNull

\* the score of g if its quality is 0
OverlapScore(g) == 55 * FeatOf(g).cat + 45 * FeatOf(g).des

\* C31: a merged identifier without stats is kept - it is returned whenever
\* the cap leaves room for every merged identifier - and it is ranked with
\* quality 0: its place among the returned identifiers, or its absence,
\* is the one its overlap score alone gives it.
C31_MissingStats ==
    (scOut.done /\ scOut.ok) =>
       \A k \in DOMAIN scOut.feats :
          NoStats(scOut.feats[k].gid) =>
             /\ (LimitFinal.none \/ LimitFinal.n >= Len(scOut.feats))
                   => scOut.feats[k].gid \in Returned_ids
             /\ \A i, j \in DOMAIN scOut.ids :
                   /\ (i < j /\ scOut.ids[i] = scOut.feats[k].gid)
                         => OverlapScore(scOut.feats[k].gid) >= ScoreOf(scOut.ids[j])
                   /\ (i < j /\ scOut.ids[j] = scOut.feats[k].gid)
                         => ScoreOf(scOut.ids[i]) >= OverlapScore(scOut.feats[k].gid)
             /\ scOut.feats[k].gid \notin Returned_ids
                   => \A i \in DOMAIN scOut.ids :
                         ScoreOf(scOut.ids[i]) >= OverlapScore(scOut.feats[k].gid)

C31_Witness ==
    /\ scOut.done
    /\ scOut.ok
    /\ Len(scOut.ids) = 3
    /\ ~(scOut.ids[3] \in DOMAIN store /\ store[scOut.ids[3]].present)
    /\ OverlapScore(scOut.ids[3]) > 0
    /\ \A i \in 1..2 : store[scOut.ids[i]].present /\ ~store[scOut.ids[i]].avgNull
    /\ scOut.feats[1].gid = scOut.ids[3]

\* C33: in the merged state every identifier's category and designer
\* overlap is at least 0, whatever the entries carry.
C33_NonNegative ==
    MergeDone =>
       \A k \in DOMAIN scOut.feats : scOut.feats[k].cat >= 0 /\ scOut.feats[k].des >= 0

C33_Witness ==
    /\ MergeDone
    /\ scOut.ok
    /\ \E i, j \in DOMAIN scIn.candidates, k \in DOMAIN scOut.feats :
          /\ scIn.candidates[i].kind = "dict"
          /\ scIn.candidates[i].hasCat
          /\ scIn.candidates[i].cat < 0
          /\ scIn.candidates[i].des < 0
          /\ scIn.candidates[i].g.n = scOut.feats[k].gid
          /\ scOut.feats[k].cat = 0
          /\ scOut.feats[k].des = 0
          /\ scOut.feats[k].gid \in Returned_ids
          /\ scIn.candidates[j].kind = "dict"
          /\ scIn.candidates[j].hasG
          /\ ~scIn.candidates[j].hasDes
          /\ scIn.candidates[j].g.n \in Returned_ids

\* C35: no identifier is returned twice, and every returned identifier is
\* named by an entry of the candidate list and is not in exclude_g_ids.
C35_NoDuplicates ==
    (scOut.done /\ scOut.ok) =>
       /\ \A i, j \in DOMAIN scOut.ids : scOut.ids[i] = scOut.ids[j] => i = j
       /\ \A i \in DOMAIN scOut.ids :
             NamedAt(scOut.ids[i]) # {} /\ scOut.ids[i] \notin ExcludedIds

C35_Witness ==
    /\ scOut.done
    /\ scOut.ok
    /\ Len(scIn.candidates) = 3
    /\ NamedAt(1) = { 1, 2, 3 }
    /\ scIn.candidates[1].kind = "int"
    /\ scIn.candidates[2] # scIn.candidates[3]
    /\ scIn.exclude # << >>
    /\ scOut.ids = << 1 >>

\* the Constraints object score_candidates builds at its first line
BuiltConstraints == Constraints(scIn.constraints)

\* C24: the caps of every Constraints object that score_candidates builds
\* are positive integers.
C24_PositiveCaps ==
    (scOut.done /\ scIn.constraints.shape = "dict") =>
       \A f \in { "limit_candidates", "limit_final" } :
          ~BuiltConstraints[f].none /\ BuiltConstraints[f].n > 0

-----------------------------------------------------------------------------
(* Properties of two successive calls of score_candidates (RepeatSpec)     *)

\* C15: a second call with the same candidates, constraints and excludeIds
\* against the same Store contents returns the list the first call
\* returned, identifiers of equal score in the same order, in whatever
\* order the Store hands out the stats rows; a call that fails before it
\* reaches the Store fails the same way again.
C15_Deterministic ==
    (scPrev.done /\ scOut.done) =>
       /\ (scPrev.ok /\ scOut.ok) => scOut.ids = scPrev.ids
       /\ scOut.feats = scPrev.feats
       /\ (scPrev.queries = 0 \/ scOut.queries = 0)
             => scOut.ok = scPrev.ok /\ scOut.exc = scPrev.exc /\ scOut.ids = scPrev.ids

C15_Witness ==
    /\ scPrev.done
    /\ scOut.done
    /\ scPrev.ok
    /\ scOut.ok
    /\ scPrev.desc # scOut.desc
    /\ Len(scOut.ids) = 2
    /\ scOut.queries = 1
    /\ \A g \in { scOut.ids[i] : i \in DOMAIN scOut.ids } :
          store[g] = store[scOut.ids[1]] /\ store[g].present
    /\ \A k \in DOMAIN scOut.feats : scOut.feats[k].cat = 0 /\ scOut.feats[k].des = 0

-----------------------------------------------------------------------------
(* Properties of the other DBManager methods (DbSpec)                      *)

\* the catalog has a row for identifier g
HasRow(g) == g \in DOMAIN store /\ store[g].present

\* C18: fetch_game_cards returns the input identifiers that have a catalog
\* row, in input order and with the input's duplicates, after one profile
\* fetch per input identifier; a miss is left out without an error, and an
\* empty input gives an empty list (and no fetch at all).
C18_Cards ==
    (dbOut.done /\ dbIn.fn = "fetch_game_cards") =>
       /\ (~dbOut.fault \/ dbIn.ids = << >>)
             => /\ dbOut.ok
                /\ dbOut.value.ty = "Boardgames"
                /\ dbOut.value.ids = SelectSeq(dbIn.ids, LAMBDA g : HasRow(g))
                /\ dbOut.calls = dbIn.ids
                /\ dbOut.queries = Len(dbIn.ids)
       /\ dbOut.ok \/ dbOut.fault

C18_Witness ==
    /\ dbOut.done
    /\ dbIn.fn = "fetch_game_cards"
    /\ dbOut.ok
    /\ Len(dbIn.ids) = 3
    /\ dbIn.ids[1] = dbIn.ids[3]
    /\ HasRow(dbIn.ids[1])
    /\ ~HasRow(dbIn.ids[2])
    /\ dbOut.value.ids = << dbIn.ids[1], dbIn.ids[1] >>
    /\ Len(dbOut.calls) = 3

\* C19: get_game_profile answers None for an identifier without a catalog
\* row, not a record of defaults, and for an identifier with a row a game
\* carrying that identifier.
C19_Profile ==
    (dbOut.done /\ dbIn.fn = "get_game_profile" /\ ~dbOut.fault) =>
       /\ dbOut.ok
       /\ HasRow(dbIn.ids[1])
             => dbOut.value.ty = "Boardgame" /\ dbOut.value.ids = << dbIn.ids[1] >>
       /\ ~HasRow(dbIn.ids[1]) => dbOut.value.ty = "none" /\ dbOut.value.ids = << >>

C19_Witness ==
    /\ dbOut.done
    /\ dbIn.fn = "get_game_profile"
    /\ dbOut.ok
    /\ dbIn.ids[1] \in DOMAIN store
    /\ ~HasRow(dbIn.ids[1])
    /\ \E g \in DOMAIN store : HasRow(g)
    /\ dbOut.value = NoneValue

\* C20: with an empty identifier set both candidate generators return the
\* empty list whatever the constraints, and send nothing to the Store (so
\* a failing Store goes unnoticed).
C20_EmptySet ==
    (dbOut.done /\ dbIn.fn \in { "candidate_by_categories", "candidate_by_designers" }
                /\ dbIn.ids = << >>) =>
       /\ dbOut.ok
       /\ dbOut.value.ty = "cands"
       /\ dbOut.value.ids = << >>
       /\ dbOut.queries = 0

C20_Witness ==
    /\ dbOut.done
    /\ dbIn.fn = "candidate_by_designers"
    /\ dbIn.ids = << >>
    /\ dbIn.constraints.keys # {}
    /\ dbOut.fault
    /\ dbOut.ok
    /\ dbOut.value.ids = << >>
    /\ dbOut.queries = 0

\* a finished, successful call of one of the two candidate generators
Generated ==
    /\ dbOut.done
    /\ dbOut.ok
    /\ dbIn.fn \in { "candidate_by_categories", "candidate_by_designers" }

\* the categories or designers of game g, whichever the call matches on
AttrOf(g) == IF dbIn.fn = "candidate_by_categories" THEN GameCats(g) ELSE GameDes(g)

\* the Constraints the generator builds from its argument (None: defaults)
GenConstraints ==
    Constraints(IF dbIn.constraints.shape = "dict" THEN dbIn.constraints ELSE ConsEmpty)

\* C21: a candidate list has non-increasing overlaps, and non-increasing vote
\* counts among equal overlaps; every game in it shares an identifier with
\* the input set and its overlap is the number of identifiers it shares.
C21_CandidateOrder ==
    Generated =>
       /\ \A i, j \in DOMAIN dbOut.value.ids :
             i < j => /\ dbOut.value.ovl[i] >= dbOut.value.ovl[j]
                      /\ dbOut.value.ovl[i] = dbOut.value.ovl[j]
                            => VotesOf(dbOut.value.ids[i]) >= VotesOf(dbOut.value.ids[j])
       /\ \A i \in DOMAIN dbOut.value.ids :
             /\ dbOut.value.ovl[i] >= 1
             /\ dbOut.value.ovl[i]
                   = Cardinality(AttrOf(dbOut.value.ids[i]) \cap SeqToSet(dbIn.ids))

C21_Witness ==
    /\ Generated
    /\ Len(dbOut.value.ids) = 2
    /\ Len(dbIn.ids) = 2
    /\ dbOut.value.ovl[1] = dbOut.value.ovl[2]
    /\ dbOut.value.ids[1] > dbOut.value.ids[2]
    /\ VotesOf(dbOut.value.ids[1]) > VotesOf(dbOut.value.ids[2])
    /\ VotesOf(dbOut.value.ids[2]) > 0

\* C22: a candidate list is never longer than constraints.limit_candidates.
C22_CandidateCap ==
    Generated => Len(dbOut.value.ids) <= GenConstraints["limit_candidates"].n

C22_Witness ==
    /\ Generated
    /\ GenConstraints["limit_candidates"].n = 1
    /\ Len(dbOut.value.ids) = 1
    /\ Cardinality({ g \in Gids : HasRow(g) /\ AttrOf(g) \cap SeqToSet(dbIn.ids) # {} }) >= 2

-----------------------------------------------------------------------------
(* Properties of _constraint_clauses (ClauseSpec)                          *)

\* the optional filters the caller gave a value
Supplied ==
    { f \in SeqToSet(FilterFields) :
         f \in clIn.constraints.keys /\ ~clIn.constraints.val[f].none }

\* the vote threshold in force: the caller's, or the default
VoteFloor ==
    IF "min_votes" \in clIn.constraints.keys THEN clIn.constraints.val["min_votes"]
    ELSE [none |-> FALSE, n |-> 500]

\* C23: with an exact player count p the players filter is built and a row
\* passes it iff minplayers <= p <= maxplayers (both stored); a filter field that is
\* absent adds no clause, so with all of them absent only the vote
\* threshold is built; and the parameters are exactly the supplied filter
\* fields plus min_votes, with the supplied values.
C23_Clauses ==
    clOut.done =>
       /\ "players" \in Supplied
             => /\ "players" \in SeqToSet(clOut.where)
                /\ "players" \in clOut.holds
                      <=> /\ clIn.game.nulls \cap { "minplayers", "maxplayers" } = {}
                          /\ clIn.game.minplayers <= clIn.constraints.val["players"].n
                          /\ clIn.constraints.val["players"].n <= clIn.game.maxplayers
       /\ \A f \in SeqToSet(FilterFields) : f \notin Supplied => f \notin SeqToSet(clOut.where)
       /\ Supplied = {} => clOut.where = << "1=1", "min_votes" >>
       /\ clOut.keys = Supplied \cup { "min_votes" }
       /\ \A f \in Supplied : clOut.val[f] = clIn.constraints.val[f]
       /\ clOut.val["min_votes"] = VoteFloor

C23_Witness ==
    /\ clOut.done
    /\ Supplied = { "players", "maxplaytime" }
    /\ "minplayers" \in clIn.constraints.keys
    /\ "limit_final" \in clIn.constraints.keys
    /\ clIn.constraints.val["players"].n = 0
    /\ clIn.game.minplayers = 0
    /\ clOut.where = << "1=1", "players", "maxplaytime", "min_votes" >>
    /\ clOut.holds = { "1=1", "players", "min_votes" }

\* the columns a filter compares with its parameter
ColumnsOf(f) ==
    CASE f = "players"     -> { "minplayers", "maxplayers" }
      [] f = "minplayers"  -> { "maxplayers" }
      [] f = "maxplayers"  -> { "minplayers" }
      [] f = "maxplaytime" -> { "maxplaytime" }
      [] f = "minplaytime" -> { "minplaytime" }

\* C32: a row whose vote count is NULL passes the vote threshold; a row
\* with a NULL player or playtime column passes no filter that is set and
\* compares that column.
C32_Nulls ==
    clOut.done =>
       /\ clIn.game.votesNull => "min_votes" \in clOut.holds
       /\ \A f \in Supplied :
             ColumnsOf(f) \cap clIn.game.nulls # {} => f \notin clOut.holds

C32_Witness ==
    /\ clOut.done
    /\ clIn.game.votesNull
    /\ clOut.val["min_votes"].n = 100
    /\ "min_votes" \in clOut.holds
    /\ clIn.game.nulls = { "maxplayers" }
    /\ Supplied = { "minplayers", "maxplayers", "maxplaytime" }
    /\ clOut.holds = { "1=1", "maxplayers", "maxplaytime", "min_votes" }

-----------------------------------------------------------------------------
(* Properties of the client's chat loop (AgentSpec)                        *)

\* a user turn is over and the client is back at its prompt
TurnOver == agent.pc = "prompt" /\ agent.turns > 0

\* C26: a user turn issues at most 20 tool invocations; a turn that used
\* all 20 ends with a final answer given to the user, and the client is
\* back at its prompt.
C26_BoundedTurn ==
    /\ agent.calls <= 20
    /\ agent.step <= 20
    /\ (agent.calls = 20 /\ agent.pc # "exited")
          => TurnOver /\ agent.answered

\* C34: no request id is written to the server twice in one session.
C34_UniqueIds == agent.resent = {}

\* C37: a client that has ended after starting the server subprocess has
\* killed it; the subprocess is not killed while the client runs, and the
\* only exit that leaves none behind is the one taken before it is started.
C37_ServerKilled ==
    /\ agent.pc = "exited"
          => \/ agent.proc = "killed"
             \/ agent.proc = "none" /\ agent.cause = "nocreds"
    /\ agent.pc \in { "prompt", "chat", "reply" } => agent.proc = "running"

C37_Witness ==
    /\ agent.pc = "exited"
    /\ agent.proc = "killed"
    /\ agent.cause = "noresponse"
    /\ agent.turns = 1
    /\ agent.calls = 2

\* C38: once the server has answered a tools/call with an error the client
\* has ended with status 1: the error was not appended to the messages as
\* a tool message and no step of any turn follows.
C38_ErrorEndsSession ==
    agent.toolError
       => /\ agent.pc = "exited"
          /\ agent.exit = 1
          /\ agent.cause = "toolerror"
          /\ agent.fed = agent.calls - 1

C38_Witness ==
    /\ agent.toolError
    /\ agent.pc = "exited"
    /\ agent.turns = 0
    /\ agent.calls = 3
    /\ agent.fed = 2
    /\ agent.sent = { 1, 100, 101, 102 }

====
